---- MODULE Spec2Model ----
(***************************************************************************)
(* Blacktop Blackout: the module / plugin lifecycle core.                  *)
(*                                                                         *)
(*   MessagingService        api/src/services/messaging.service.ts         *)
(*   BlacktopPluginManager   plugin-manager                                *)
(*                                                                         *)
(* Strings whose characters the code inspects (topic names, glob patterns) *)
(* are sequences of one-character strings.  A JavaScript Map is a sequence *)
(* of [k, v] entries in insertion order.  Both services run on one event   *)
(* loop: an action is one call, run up to the point where it would wait    *)
(* for something outside the service.                                      *)
(***************************************************************************)
EXTENDS Integers, Sequences, FiniteSets, TLC

VARIABLES
    subscriptions,   \* MessagingService.subscriptions: Map topic -> MessageSubscription[]
    listeners,       \* the EventEmitter's listeners: Map topic -> handler[]
    messageHistory,  \* MessagingService.messageHistory: Map topic -> message[]
    layers,          \* how many times subscribePattern has wrapped this.publish
    nextId,          \* source of generateSubscriptionId()
    now,             \* the clock read by new Date() and the timers
    requests,        \* the request() calls made: timer, promise, response topic
    inbox,           \* request messages held by handlers that answer later
    published,       \* history variable: every stamped message, per topic, in publish order
    invoked,         \* history variable: handler invocations of the last call
    threw,           \* whether the last call failed (threw / rejected)
    last,            \* the last call: [op, topic, msg]
    installedPackages, \* what livePluginManager.require resolves: Map id -> plugin object
    loadedPlugins,   \* BlacktopPluginManager.loadedPlugins: Map id -> PluginModule
    pluginContexts,  \* BlacktopPluginManager.pluginContexts: Map id -> PluginContext
    calls,           \* the plugin manager calls that are waiting: [op, id, pc, ..]
    pmEvents,        \* history variable: the events the last step emitted
    pmLast,          \* history variable: the call the last step ended, and how
    pmListeners,     \* the events of the manager that have a listener
    config,          \* BlacktopPluginManager.config: sandboxEnabled, trustedSources
    plugins,         \* PluginRegistry.plugins: Map id -> ModuleMetadata
    regLast,         \* history variable: the last call of the registry, and what it returned
    httpLast,        \* history variable: the last request the plugin router answered, and how
    availableModules, \* the client store's availableModules: ModuleMetadata[]
    loadedModules,   \* the client store's loadedModules: Map id -> LoadedModule
    storeCalls,      \* the client store's calls that are waiting for a fetch or an import
    storeLast        \* history variable: the last step of the client store

msgVars == <<subscriptions, listeners, messageHistory, layers, nextId, now,
             requests, inbox, published, invoked, threw, last>>

pmVars == <<installedPackages, loadedPlugins, pluginContexts, calls, pmEvents, pmLast,
            pmListeners, config>>

regVars == <<plugins, regLast>>

apiVars == <<httpLast>>

storeVars == <<availableModules, loadedModules, storeCalls, storeLast>>

vars == <<msgVars, pmVars, regVars, apiVars, storeVars>>

(***************************************************************************)
(* Bounds of the model.                                                    *)
(***************************************************************************)
MaxIds == 2          \* subscribe / request calls in a run
MaxPublish == 2      \* publish calls in a run of the pub/sub specification
MaxTime == 1         \* clock ticks in a run
MaxBody == 1         \* distinct payloads callers publish
MaxRequests == 1     \* request() calls in a run

(***************************************************************************)
(* JavaScript values.                                                      *)
(***************************************************************************)
\* an absent string-valued property
UNDEF == <<"#undefined">>
\* String(undefined), what RegExp.prototype.test makes of an absent property
StrUndefined == <<"u", "n", "d", "e", "f", "i", "n", "e", "d">>
ToStr(v) == IF v = UNDEF THEN StrUndefined ELSE v
\* an absent number-valued property
NoTime == -1

Min(a, b) == IF a < b THEN a ELSE b

DropFirst(s) == SubSeq(s, 2, Len(s))
LastOf(s) == s[Len(s)]

\* Array.prototype.slice(-n)
SliceLast(s, n) == SubSeq(s, Len(s) - Min(n, Len(s)) + 1, Len(s))

(***************************************************************************)
(* Map: entries [k, v] in insertion order.                                 *)
(***************************************************************************)
MapHas(m, k) == \E i \in 1..Len(m) : m[i].k = k
MapIdx(m, k) == CHOOSE i \in 1..Len(m) : m[i].k = k
MapGetOr(m, k, d) == IF MapHas(m, k) THEN m[MapIdx(m, k)].v ELSE d
MapSet(m, k, v) ==
    IF MapHas(m, k) THEN [m EXCEPT ![MapIdx(m, k)].v = v]
    ELSE Append(m, [k |-> k, v |-> v])
MapDelete(m, k) == SelectSeq(m, LAMBDA e : e.k # k)
MapKeys(m) == [i \in 1..Len(m) |-> m[i].k]

(***************************************************************************)
(* Handlers.  A JavaScript function is known by its identity; the fields   *)
(* say which function it is and how it behaves when called.                *)
(*   user            a subscriber's callback; beh is                       *)
(*                     "ok"          returns normally                      *)
(*                     "throw"       throws synchronously                  *)
(*                     "reject"      returns a promise that rejects        *)
(*                     "replySync"   calls reply(message, ..) at once      *)
(*                     "replyLater"  keeps the message and replies later   *)
(*   wrapper         the arrow function request() subscribes (l.349-352)   *)
(*   responseHandler the responseHandler of request() (l.337-340)          *)
(*   pattern         the wrappedCallback of subscribePattern (l.380-384)   *)
(***************************************************************************)
User(name, beh) == [kind |-> "user", name |-> name, beh |-> beh, n |-> 0, pat |-> <<>>]
Wrapper(r) == [kind |-> "wrapper", name |-> "", beh |-> "", n |-> r, pat |-> <<>>]
ResponseHandler(r) == [kind |-> "responseHandler", name |-> "", beh |-> "", n |-> r, pat |-> <<>>]
WrappedCallback(p, cb, n) == [kind |-> "pattern", name |-> cb.name, beh |-> cb.beh, n |-> n, pat |-> p]
NoHandler == [kind |-> "none", name |-> "", beh |-> "", n |-> 0, pat |-> <<>>]

HandlerA == User("A", "ok")
HandlerB == User("B", "ok")
Thrower == User("T", "throw")
Rejecter == User("J", "reject")
Responder == User("R", "replySync")
SlowResponder == User("S", "replyLater")

(***************************************************************************)
(* Messages.  x is the payload; the other fields are the ones publish and  *)
(* request add.                                                            *)
(***************************************************************************)
Raw(x) == [x |-> x, _timestamp |-> NoTime, _topic |-> UNDEF,
           _responseId |-> UNDEF, _responseTopic |-> UNDEF]
NoMsg == Raw(0)

\* publish, l.169-173: { ...message, _timestamp: new Date(), _topic: topic }
Enrich(message, time, topic) == [message EXCEPT !._timestamp = time, !._topic = topic]

(***************************************************************************)
(* new RegExp(pattern.replace(/\*/g, '.*')).test(s), l.378 and l.400, for  *)
(* patterns over ordinary characters, "." and "*": "*" has become ".*",    *)
(* "." matches any one character, and the expression is not anchored, so   *)
(* it is searched for anywhere in s.                                       *)
(***************************************************************************)
RECURSIVE MatchHere(_, _, _, _)
MatchHere(p, i, s, j) ==
    IF i > Len(p) THEN TRUE
    ELSE IF p[i] = "*" THEN \E k \in j..(Len(s) + 1) : MatchHere(p, i + 1, s, k)
    ELSE IF j > Len(s) THEN FALSE
    ELSE IF p[i] = "." \/ p[i] = s[j] THEN MatchHere(p, i + 1, s, j + 1)
    ELSE FALSE

RegexTest(p, s) == \E j \in 1..(Len(s) + 1) : MatchHere(p, 1, s, j)

\* `__pattern__${pattern}`, l.387
PatternPrefix == <<"_", "_", "p", "a", "t", "t", "e", "r", "n", "_", "_">>
PatternKey(pattern) == PatternPrefix \o pattern
\* key.startsWith('__pattern__'), l.396
StartsWithPattern(key) ==
    Len(key) >= Len(PatternPrefix) /\ SubSeq(key, 1, Len(PatternPrefix)) = PatternPrefix
\* patternKey.replace('__pattern__', ''), l.399: the first occurrence, which
\* for a key that starts with the prefix is the prefix
StripPattern(key) == SubSeq(key, Len(PatternPrefix) + 1, Len(key))

\* generateSubscriptionId, l.451-453: `sub_${Date.now()}_${random}`; the
\* time-and-random part is a number that is never handed out twice
Digits == <<"0", "1", "2", "3", "4", "5", "6", "7", "8", "9">>
generateSubscriptionId(n) == <<"s", "u", "b", "_", Digits[(n % 10) + 1]>>

\* `${topic}:response:${responseId}`, l.334
ResponseTopic(topic, responseId) ==
    topic \o <<":", "r", "e", "s", "p", "o", "n", "s", "e", ":">> \o responseId

(***************************************************************************)
(* The world a call acts on: the service's fields, the promises and timers *)
(* of request(), and what the handlers did.                                *)
(***************************************************************************)
World == [subscriptions |-> subscriptions, listeners |-> listeners,
          messageHistory |-> messageHistory, layers |-> layers,
          nextId |-> nextId, now |-> now, requests |-> requests,
          inbox |-> inbox, published |-> published,
          invoked |-> <<>>, threw |-> FALSE]

\* the payloads callers publish, and the payload handlers reply with
Bodies == 1..MaxBody
ReplyBody == MaxBody + 1

maxHistoryPerTopic == 100

\* addToHistory with pop() for shift(): the newest message is the one dropped
addToHistoryDropsNewest(W, topic, message) ==
    LET history == Append(MapGetOr(W.messageHistory, topic, <<>>), message)
        kept == IF Len(history) > maxHistoryPerTopic
                THEN SubSeq(history, 1, Len(history) - 1) ELSE history
    IN [W EXCEPT !.messageHistory = MapSet(@, topic, kept),
                 !.published = MapSet(@, topic,
                                      Append(MapGetOr(W.published, topic, <<>>), message))]

\* addToHistory, l.437-449
addToHistory(W, topic, message) ==
    LET history == Append(MapGetOr(W.messageHistory, topic, <<>>), message)
        kept == IF Len(history) > maxHistoryPerTopic THEN DropFirst(history) ELSE history
    IN [W EXCEPT !.messageHistory = MapSet(@, topic, kept),
                 !.published = MapSet(@, topic,
                                      Append(MapGetOr(W.published, topic, <<>>), message))]

\* getMessageHistory, l.275-278; limit 0 stands for a limit not given (0 is falsy too)
getMessageHistory(topic, limit) ==
    LET history == MapGetOr(messageHistory, topic, <<>>)
    IN IF limit # 0 THEN SliceLast(history, limit) ELSE history

\* getTopics, l.283-285
getTopics == MapKeys(subscriptions)

\* getSubscriberCount, l.290-292
getSubscriberCount(topic) == Len(MapGetOr(subscriptions, topic, <<>>))

\* EventEmitter.on
On(W, topic, h) ==
    [W EXCEPT !.listeners = MapSet(@, topic, Append(MapGetOr(W.listeners, topic, <<>>), h))]

\* the index of the listener EventEmitter.off removes: the one added last
LastIndexOf(s, h) ==
    IF \E i \in 1..Len(s) : s[i] = h
    THEN CHOOSE i \in 1..Len(s) : s[i] = h /\ \A j \in (i + 1)..Len(s) : s[j] # h
    ELSE 0

RemoveAt(s, i) == SubSeq(s, 1, i - 1) \o SubSeq(s, i + 1, Len(s))

\* EventEmitter.off (removeListener): one instance of h, the one added last
Off(W, topic, h) ==
    LET ls == MapGetOr(W.listeners, topic, <<>>)
        i == LastIndexOf(ls, h)
        rest == RemoveAt(ls, i)
    IN IF i = 0 THEN W
       ELSE IF rest = <<>> THEN [W EXCEPT !.listeners = MapDelete(@, topic)]
       ELSE [W EXCEPT !.listeners = MapSet(@, topic, rest)]

\* EventEmitter.removeAllListeners(topic)
RemoveAllListeners(W, topic) == [W EXCEPT !.listeners = MapDelete(@, topic)]

\* subscribe, l.213-237; the id is drawn first, l.215
subscribe(W, topic, callback) ==
    LET subscription == [topic |-> topic, handler |-> callback,
                         id |-> generateSubscriptionId(W.nextId)]
        W1 == [W EXCEPT !.nextId = @ + 1,
                        !.subscriptions =
                            MapSet(@, topic,
                                   Append(MapGetOr(W.subscriptions, topic, <<>>), subscription))]
    IN On(W1, topic, callback)

\* unsubscribe with a callback that deletes the topic's entry whatever is left
unsubscribeHandlerDeletesTopic(W, topic, callback) ==
    LET W1 == Off(W, topic, callback)
    IN [W1 EXCEPT !.subscriptions = MapDelete(@, topic)]

\* unsubscribe with a callback that stores the filtered list even when it is empty
unsubscribeHandlerKeepsTopic(W, topic, callback) ==
    LET W1 == Off(W, topic, callback)
        subs == MapGetOr(W1.subscriptions, topic, <<>>)
        updatedSubscriptions == SelectSeq(subs, LAMBDA sub : sub.handler # callback)
    IN [W1 EXCEPT !.subscriptions = MapSet(@, topic, updatedSubscriptions)]

\* unsubscribe with a callback, l.244-258
unsubscribeHandler(W, topic, callback) ==
    LET W1 == Off(W, topic, callback)
        subs == MapGetOr(W1.subscriptions, topic, <<>>)
        updatedSubscriptions == SelectSeq(subs, LAMBDA sub : sub.handler # callback)
    IN IF Len(updatedSubscriptions) = 0
       THEN [W1 EXCEPT !.subscriptions = MapDelete(@, topic)]
       ELSE [W1 EXCEPT !.subscriptions = MapSet(@, topic, updatedSubscriptions)]

\* unsubscribe without a callback, l.259-265
unsubscribeAll(W, topic) ==
    LET W1 == RemoveAllListeners(W, topic)
    IN [W1 EXCEPT !.subscriptions = MapDelete(@, topic)]

\* the subscribed handler without its clearTimeout
clearTimeoutForgotten(W, r) == W

\* clearTimeout(timeoutId), l.350: a timer that fired or was cleared stays so
clearTimeoutOf(W, r) ==
    IF W.requests[r].timer = "armed" THEN [W EXCEPT !.requests[r].timer = "cancelled"] ELSE W

\* resolve(response), l.339: only the first settlement of a promise counts
resolve(W, r, response) ==
    LET W1 == [W EXCEPT !.requests[r].settleCalls = @ + 1]
    IN IF W.requests[r].state = "pending"
       THEN [W1 EXCEPT !.requests[r].state = "resolved", !.requests[r].value = response]
       ELSE W1

\* the timer callback settling the promise with resolve(undefined)
rejectResolves(W, r) ==
    LET W1 == [W EXCEPT !.requests[r].settleCalls = @ + 1]
    IN IF W.requests[r].state = "pending"
       THEN [W1 EXCEPT !.requests[r].state = "resolved"]
       ELSE W1

\* reject(new Error(`Request timeout ...`)), l.345
reject(W, r) ==
    LET W1 == [W EXCEPT !.requests[r].settleCalls = @ + 1]
    IN IF W.requests[r].state = "pending"
       THEN [W1 EXCEPT !.requests[r].state = "rejected"]
       ELSE W1

\* responseHandler, l.337-340
responseHandler(W, r, response) ==
    resolve(unsubscribeHandler(W, W.requests[r].responseTopic, ResponseHandler(r)), r, response)

(***************************************************************************)
(* publish and the handlers it runs.  Everything here happens before       *)
(* publish first waits: emit calls the listeners synchronously, and the    *)
(* map over the subscribers calls every handler before the first await     *)
(* resumes.  W.threw says that the code running has thrown.                *)
(***************************************************************************)
RECURSIVE Invoke(_, _, _)
RECURSIVE EmitTo(_, _, _, _)
RECURSIVE CallDirect(_, _, _, _)
RECURSIVE publishLayer(_, _, _, _)
RECURSIVE EmitPatterns(_, _, _, _, _)

\* EventEmitter.emit(topic, message): the listeners registered when emit
\* starts, in the order they were added; a listener that throws ends it
emit(W, topic, message) == EmitTo(W, MapGetOr(W.listeners, topic, <<>>), message, 1)

EmitTo(W, ls, message, i) ==
    IF i > Len(ls) \/ W.threw THEN W
    ELSE EmitTo(Invoke(W, ls[i], message), ls, message, i + 1)

\* l.190-199: each subscriber's handler, a throw or a rejection caught and logged
CallDirect(W, subscribers, message, i) ==
    IF i > Len(subscribers) THEN W
    ELSE CallDirect([Invoke(W, subscribers[i].handler, message) EXCEPT !.threw = FALSE],
                    subscribers, message, i + 1)

\* publish looking for subscribers, and returning when there are none,
\* before it stores the message
originalPublishReturnsFirst(W, topic, message) ==
    LET enrichedMessage == Enrich(message, W.now, topic)
        subscribers == MapGetOr(W.subscriptions, topic, <<>>)
    IN IF Len(subscribers) = 0 THEN W
       ELSE LET W1 == addToHistory(W, topic, enrichedMessage)
                W2 == emit(W1, topic, enrichedMessage)
            IN IF W2.threw THEN W2
               ELSE CallDirect(W2, subscribers, enrichedMessage, 1)

\* the publish method of the class, l.164-208
originalPublish(W, topic, message) ==
    LET enrichedMessage == Enrich(message, W.now, topic)
        W1 == addToHistory(W, topic, enrichedMessage)
        subscribers == MapGetOr(W1.subscriptions, topic, <<>>)
    IN IF Len(subscribers) = 0 THEN W1
       ELSE LET W2 == emit(W1, topic, enrichedMessage)
            IN IF W2.threw THEN W2
               ELSE CallDirect(W2, subscribers, enrichedMessage, 1)

\* l.395-405: emit the message publish was given to every pattern key whose
\* pattern is found in the topic
EmitPatterns(W, keys, topic, message, i) ==
    IF i > Len(keys) \/ W.threw THEN W
    ELSE IF StartsWithPattern(keys[i]) /\ RegexTest(StripPattern(keys[i]), topic)
    THEN EmitPatterns(emit(W, keys[i], message), keys, topic, message, i + 1)
    ELSE EmitPatterns(W, keys, topic, message, i + 1)

\* this.publish after n calls of subscribePattern, l.390-406: each call wraps
\* the publish it finds
publishLayer(W, topic, message, n) ==
    IF n = 0 THEN originalPublish(W, topic, message)
    ELSE LET W1 == publishLayer(W, topic, message, n - 1)
         IN IF W1.threw THEN W1
            ELSE EmitPatterns(W1, MapKeys(W1.subscriptions), topic, message, 1)

\* this.publish(topic, message)
publish(W, topic, message) == publishLayer(W, topic, message, W.layers)

\* reply, l.366-372
reply(W, originalMessage, response) ==
    IF originalMessage._responseTopic # UNDEF
    THEN publish(W, originalMessage._responseTopic, response)
    ELSE W

\* one call of handler h with message
Invoke(W, h, message) ==
    LET W1 == [W EXCEPT !.invoked = Append(@, [h |-> h, msg |-> message])]
    IN CASE h.kind = "wrapper" ->
                \* l.349-352
                LET late == W1.requests[h.n].timer = "fired"
                    W2 == [W1 EXCEPT !.requests[h.n].late = IF late THEN @ + 1 ELSE @]
                IN responseHandler(clearTimeoutOf(W2, h.n), h.n, message)
         [] h.kind = "pattern" ->
                \* l.380-384: regex.test(message._topic), then callback(message)
                IF RegexTest(h.pat, ToStr(message._topic))
                THEN Invoke(W1, User(h.name, h.beh), message)
                ELSE W1
         [] h.kind = "user" /\ h.beh = "throw" -> [W1 EXCEPT !.threw = TRUE]
         [] h.kind = "user" /\ h.beh = "replySync" ->
                \* reply is async and not awaited: its failure is not the handler's
                [reply(W1, message, Raw(ReplyBody)) EXCEPT !.threw = FALSE]
         [] h.kind = "user" /\ h.beh = "replyLater" ->
                [W1 EXCEPT !.inbox = Append(@, message)]
         [] OTHER -> W1

(***************************************************************************)
(* BlacktopPluginManager.                                                  *)
(*                                                                         *)
(* A plugin object is what livePluginManager.require(id) resolves to: a    *)
(* value for each member the manager looks at.  A value is "absent"        *)
(* (undefined), "empty" (a falsy value such as ''), "string" (a non-empty  *)
(* string) or "function".                                                  *)
(***************************************************************************)
MaxCalls == 2        \* plugin manager calls waiting at the same time
MaxDefects == 2      \* members of a plugin object that are not as the interface asks

\* validatePluginInterface, l.1060-1061
requiredMethods == <<"initialize", "destroy", "enable", "disable">>
requiredProperties == <<"id", "name", "version", "description", "author">>

Range(f) == {f[i] : i \in DOMAIN f}
Members == Range(requiredProperties) \cup Range(requiredMethods)

\* !value
Falsy(value) == value \in {"absent", "empty"}

WellFormed ==
    [m \in Members |-> IF m \in Range(requiredMethods) THEN "function" ELSE "string"]

\* what a member that is not as it should be may hold
Defects(m) == IF m \in Range(requiredMethods) THEN <<"absent", "string">> ELSE <<"absent", "empty">>

PluginObjects ==
    UNION {{[m \in Members |-> IF m \in D THEN Defects(m)[f[m]] ELSE WellFormed[m]] :
                f \in [D -> {1, 2}]} :
           D \in {D \in SUBSET Members : Cardinality(D) <= MaxDefects}}

NoError == [kind |-> "none", member |-> ""]
Failure(kind, member) == [kind |-> kind, member |-> member]

SetMin(S) == CHOOSE x \in S : \A y \in S : x <= y

\* validatePluginInterface with its two loops in the other order
validateMethodsFirst(plugin) ==
    LET noProp == {i \in DOMAIN requiredProperties : Falsy(plugin[requiredProperties[i]])}
        noMethod == {i \in DOMAIN requiredMethods : plugin[requiredMethods[i]] # "function"}
    IN IF noMethod # {} THEN Failure("method", requiredMethods[SetMin(noMethod)])
       ELSE IF noProp # {} THEN Failure("property", requiredProperties[SetMin(noProp)])
       ELSE NoError

\* validatePluginInterface, l.1059-1074: the error it throws, or NoError
validatePluginInterface(plugin) ==
    LET noProp == {i \in DOMAIN requiredProperties : Falsy(plugin[requiredProperties[i]])}
        noMethod == {i \in DOMAIN requiredMethods : plugin[requiredMethods[i]] # "function"}
    IN IF noProp # {} THEN Failure("property", requiredProperties[SetMin(noProp)])
       ELSE IF noMethod # {} THEN Failure("method", requiredMethods[SetMin(noMethod)])
       ELSE NoError

\* createPluginContext, l.1076-1083: the logger of the context prefixes the plugin id
createPluginContext(pluginId) == [pluginId |-> pluginId]
NoContext == createPluginContext("")

\* getLoadedPlugins, l.1020-1022
getLoadedPlugins == MapKeys(loadedPlugins)

\* isPluginLoaded, l.1048-1050
isPluginLoaded(pluginId) == MapHas(loadedPlugins, pluginId)

PluginIds == {"weather", "paving"}

\* how the installer answers the calls installPlugin makes: getInfo with
\* package information ("info"), with nothing ("null") or by rejecting
\* ("reject"); install by resolving ("ok") or rejecting ("reject")
NoAnswers == [getInfo |-> "null", install |-> "ok"]

PmIdle(op) ==
    [op |-> op, id |-> "", outcome |-> "", error |-> NoError, initCalled |-> FALSE,
     module |-> WellFormed, loadedBefore |-> <<>>, trace |-> <<>>, overlap |-> FALSE,
     snapshot |-> <<>>, attempts |-> <<>>, listening |-> FALSE,
     version |-> <<>>, answers |-> NoAnswers]

\* the listeners BlacktopAPI.setupPluginEventHandlers registers, part_004 l.145-160
ApiListeners == {"pluginLoaded", "pluginUnloaded", "error"}

\* the allow-list BlacktopAPI gives the manager, part_004 l.133
SourceGithub ==
    <<"g", "i", "t", "h", "u", "b", ".", "c", "o", "m", "/", "N", "X", "C", "o", "n", "n", "e", "r">>
SourceScope ==
    <<"@", "b", "l", "a", "c", "k", "t", "o", "p", "-", "b", "l", "a", "c", "k", "o", "u", "t">>
trustedSources == <<SourceGithub, SourceScope>>

\* the manager's configuration, part_004 l.130-136; sandboxEnabled is
\* whether NODE_ENV is 'production'
PluginConfig(sandboxEnabled) ==
    [sandboxEnabled |-> sandboxEnabled, trustedSources |-> trustedSources]

\* an absent type argument, and the null getPluginMetadata returns
NoType == "#undefined"
NullMetadata == [id |-> "#null"]

\* a call of the registry: its arguments, what it returned, and whether the
\* id was registered when it was made
RegCall(op, pluginId, arg, query, type, result, found) ==
    [op |-> op, id |-> pluginId, arg |-> arg, query |-> query, type |-> type,
     result |-> result, found |-> found]

\* the registry before its first call
RegIdle == RegCall("init", "", NullMetadata, <<>>, NoType, <<>>, FALSE)

\* the router before its first request: the request, the handler that ran,
\* its pluginId parameter, what isPluginLoaded gave it (FALSE when it did not
\* ask), the calls it made to the services, the responses it sent and
\* whether an exception left it
HttpIdle ==
    [method |-> "", path |-> <<>>, handler |-> "", pluginId |-> <<>>, loaded |-> FALSE,
     invoked |-> <<>>, responses |-> <<>>, escaped |-> FALSE]

\* a router that has answered nothing yet
InitApi == httpLast = HttpIdle

\* a step of the client store: the call it belongs to, the module id, the
\* state of the id's entry before the step, whether the id was found in
\* availableModules, what the step did, whether it raised to its caller and
\* whether it completed a loadModule call
StoreStep(op, moduleId, before, found, trace, completed) ==
    [op |-> op, id |-> moduleId, before |-> before, found |-> found, trace |-> trace,
     raised |-> FALSE, completed |-> completed]

\* the client store before its first call
StoreIdle == StoreStep("init", "", "absent", FALSE, <<>>, FALSE)

\* create<ModuleStore>(...), module.store.ts l.39-44
InitStore ==
    /\ availableModules = <<>>
    /\ loadedModules = <<>>
    /\ storeCalls = <<>>
    /\ storeLast = StoreIdle

(***************************************************************************)
(* Calls.                                                                  *)
(***************************************************************************)
TopicAlerts == <<"a", "l", "e", "r", "t", "s">>
TopicJobs == <<"j", "o", "b", "s">>
Topics == {TopicAlerts, TopicJobs}

Call(op, topic, msg) == [op |-> op, topic |-> topic, msg |-> msg]
\* a call of which only the kind is remembered
Idle(op) == Call(op, UNDEF, NoMsg)

\* the state a call leaves
Commit(W, call) ==
    /\ subscriptions' = W.subscriptions
    /\ listeners' = W.listeners
    /\ messageHistory' = W.messageHistory
    /\ layers' = W.layers
    /\ nextId' = W.nextId
    /\ now' = W.now
    /\ requests' = W.requests
    /\ inbox' = W.inbox
    /\ published' = W.published
    /\ invoked' = W.invoked
    /\ threw' = W.threw
    /\ last' = call
    /\ UNCHANGED <<pmVars, regVars, apiVars, storeVars>>

RECURSIVE SumLen(_, _)
SumLen(m, i) == IF i > Len(m) THEN 0 ELSE Len(m[i].v) + SumLen(m, i + 1)
\* the messages published so far, over all topics
TotalPublished == SumLen(published, 1)

InitMessaging ==
    /\ subscriptions = <<>>
    /\ listeners = <<>>
    /\ messageHistory = <<>>
    /\ layers = 0
    /\ nextId = 0
    /\ now = 0
    /\ requests = <<>>
    /\ inbox = <<>>
    /\ published = <<>>
    /\ invoked = <<>>
    /\ threw = FALSE
    /\ last = Idle("init")

\* time passes
Tick ==
    /\ now < MaxTime
    /\ Commit([World EXCEPT !.now = @ + 1], Idle("tick"))

\* subscribe(topic, h)
Subscribe(topic, h) ==
    /\ nextId < MaxIds
    /\ Commit(subscribe(World, topic, h), Idle("subscribe"))

\* unsubscribe(topic, h)
Unsubscribe(topic, h) ==
    Commit(unsubscribeHandler(World, topic, h), Idle("unsubscribe"))

\* unsubscribe(topic)
UnsubscribeTopic(topic) ==
    Commit(unsubscribeAll(World, topic), Idle("unsubscribeAll"))

\* publish(topic, {x})
Publish(topic, x) ==
    /\ TotalPublished < MaxPublish
    /\ Commit(publish(World, topic, Raw(x)), Call("publish", topic, Raw(x)))

\* request(topic, {x}, timeout), l.331-361.  The promise of the publish
\* inside is dropped: if it rejects, request does not notice.
Request(topic, x, timeout) ==
    /\ Len(requests) < MaxRequests
    /\ LET r == Len(requests) + 1
           responseId == generateSubscriptionId(nextId)
           responseTopic == ResponseTopic(topic, responseId)
           message == [Raw(x) EXCEPT !._responseId = responseId,
                                     !._responseTopic = responseTopic]
           W0 == [World EXCEPT
                    !.nextId = @ + 1,
                    !.requests = Append(@, [topic |-> topic,
                                            responseTopic |-> responseTopic,
                                            timer |-> "armed",
                                            deadline |-> now + timeout,
                                            state |-> "pending",
                                            value |-> NoMsg,
                                            settleCalls |-> 0,
                                            late |-> 0])]
           W1 == subscribe(W0, responseTopic, Wrapper(r))
           W2 == publish(W1, topic, message)
       IN Commit([W2 EXCEPT !.threw = FALSE], Call("request", topic, message))

\* the timer of request r fires, l.343-346; never before its delay has passed
TimerFire(r) ==
    /\ requests[r].timer = "armed"
    /\ now >= requests[r].deadline
    /\ LET W0 == [World EXCEPT !.requests[r].timer = "fired"]
           W1 == unsubscribeHandler(W0, requests[r].responseTopic, ResponseHandler(r))
       IN Commit(reject(W1, r), Idle("timeout"))

\* a handler that kept a message calls reply(message, response)
ReplyLater(i) ==
    LET W0 == [World EXCEPT !.inbox = RemoveAt(@, i)]
    IN Commit(reply(W0, inbox[i], Raw(ReplyBody)), Call("reply", inbox[i]._responseTopic, inbox[i]))

(***************************************************************************)
(* The publish / subscribe specification.                                  *)
(***************************************************************************)
Handlers == {HandlerA, Thrower, Rejecter}

\* a plugin manager just constructed, with nothing installed
InitPluginManager ==
    /\ installedPackages = <<>>
    /\ loadedPlugins = <<>>
    /\ pluginContexts = <<>>
    /\ calls = <<>>
    /\ pmEvents = <<>>
    /\ pmLast = PmIdle("init")
    /\ pmListeners = ApiListeners
    /\ config = PluginConfig(FALSE)
    /\ plugins = <<>>
    /\ regLast = RegIdle
    /\ InitApi
    /\ InitStore

Init == InitMessaging /\ InitPluginManager

Next ==
    \/ \E t \in Topics, h \in Handlers : Subscribe(t, h)
    \/ \E t \in Topics, h \in Handlers : Unsubscribe(t, h)
    \/ \E t \in Topics : UnsubscribeTopic(t)
    \/ \E t \in Topics, x \in Bodies : Publish(t, x)

Spec == Init /\ [][Next]_vars

(***************************************************************************)
(* The request / reply specification.                                      *)
(***************************************************************************)
Responders == {Responder, SlowResponder, HandlerA}
RequestTopics == {TopicJobs}

NextRequest ==
    \/ \E t \in RequestTopics, h \in Responders : Subscribe(t, h)
    \/ \E t \in RequestTopics : Request(t, 1, 1)
    \/ \E r \in 1..Len(requests) : TimerFire(r)
    \/ \E i \in 1..Len(inbox) : ReplyLater(i)
    \/ Tick

SpecRequest == Init /\ [][NextRequest]_vars

(***************************************************************************)
(* The pattern-subscription specification.                                 *)
(***************************************************************************)
PatternJobs == <<"j", "o", "b", "*">>
PatternAll == <<"*">>
PatternB == <<"b">>
Patterns == {PatternJobs, PatternAll, PatternB}

\* subscribePattern(pattern, callback), l.377-407: a new wrappedCallback is
\* subscribed under the pattern key, and this.publish is wrapped once more
SubscribePattern(pattern, callback) ==
    /\ nextId < MaxIds
    /\ LET wrappedCallback == WrappedCallback(pattern, callback, nextId)
           W1 == subscribe(World, PatternKey(pattern), wrappedCallback)
       IN Commit([W1 EXCEPT !.layers = @ + 1], Call("subscribePattern", pattern, NoMsg))

NextPattern ==
    \/ \E p \in Patterns : SubscribePattern(p, HandlerB)
    \/ \E t \in Topics : Subscribe(t, HandlerA)
    \/ \E t \in Topics, x \in Bodies : Publish(t, x)

SpecPattern == Init /\ [][NextPattern]_vars

(***************************************************************************)
(* The history specification: it starts with topics whose history is close *)
(* to its capacity.  The i-th message published to a topic carries i.      *)
(***************************************************************************)
MaxOverflow == 2     \* how far below the capacity a history starts, and how far past it the publishes go

Prefilled(topic, n) == [i \in 1..n |-> Enrich(Raw(i), 0, topic)]

InitHistory ==
    /\ subscriptions = <<>>
    /\ listeners = <<>>
    /\ layers = 0
    /\ nextId = 0
    /\ now = 0
    /\ requests = <<>>
    /\ inbox = <<>>
    /\ invoked = <<>>
    /\ threw = FALSE
    /\ last = Idle("init")
    /\ InitPluginManager
    /\ \E n, m \in (maxHistoryPerTopic - MaxOverflow)..maxHistoryPerTopic :
         /\ messageHistory = <<[k |-> TopicJobs, v |-> Prefilled(TopicJobs, n)],
                               [k |-> TopicAlerts, v |-> Prefilled(TopicAlerts, m)]>>
         /\ published = messageHistory

\* publish(topic, {x}) by a caller that numbers its messages
PublishNumbered(topic) ==
    LET n == Len(MapGetOr(published, topic, <<>>))
    IN /\ n < maxHistoryPerTopic + MaxOverflow
       /\ Commit(publish(World, topic, Raw(n + 1)), Call("publish", topic, Raw(n + 1)))

NextHistory ==
    \/ \E t \in Topics : PublishNumbered(t)
    \/ Subscribe(TopicJobs, HandlerA)
    \/ Tick

SpecHistory == InitHistory /\ [][NextHistory]_vars

(***************************************************************************)
(* Properties of the MessagingService.                                     *)
(***************************************************************************)
SubscriptionsOf(topic) == MapGetOr(subscriptions, topic, <<>>)
ListenersOf(topic) == MapGetOr(listeners, topic, <<>>)
PublishedTo(topic) == MapGetOr(published, topic, <<>>)

\* how many times the last call invoked h with message
TimesInvoked(h, message) ==
    Cardinality({i \in 1..Len(invoked) : invoked[i].h = h /\ invoked[i].msg = message})

\* how many subscriptions of topic have handler h
TimesSubscribed(topic, h) ==
    Cardinality({i \in 1..Len(SubscriptionsOf(topic)) : SubscriptionsOf(topic)[i].handler = h})

\* the message the last publish handed to the handlers
Stamped == Enrich(last.msg, now, last.topic)

\* C1: one publish(topic, m) invokes the handler of every subscription of
\* topic exactly once, with m stamped with _topic = topic and a timestamp.
C1_DeliversExactlyOnce ==
    (last.op = "publish" /\ ~threw) =>
        \A i \in 1..Len(SubscriptionsOf(last.topic)) :
            LET h == SubscriptionsOf(last.topic)[i].handler
            IN /\ TimesInvoked(h, Stamped) = TimesSubscribed(last.topic, h)
               /\ Stamped._topic = last.topic
               /\ Stamped._timestamp # NoTime

\* C2: when a topic has at least two subscribers and the handler of one of
\* them throws or rejects, publish still invokes every other subscriber's
\* handler with the message, and publish does not fail.
C2_FailingHandlerDoesNotStopDelivery ==
    LET subs == SubscriptionsOf(last.topic)
    IN (/\ last.op = "publish"
        /\ Len(subs) >= 2
        /\ \E i \in 1..Len(subs) : subs[i].handler.beh \in {"throw", "reject"})
       => /\ ~threw
          /\ \A i \in 1..Len(subs) : TimesInvoked(subs[i].handler, Stamped) >= 1

\* C3: a request settles once, and a reply published after its timer has
\* fired reaches no handler of the request.  (A promise changes state once
\* whatever is called on it, as resolve and reject have it; late counts the
\* calls of the request's subscribed handler made after the timer fired.)
C3_LateReplyIsDropped ==
    \A r \in 1..Len(requests) :
        /\ requests[r].late = 0
        /\ (requests[r].settleCalls = 0 => requests[r].state = "pending")

\* C4: a request whose response topic nothing is published to stays pending
\* while its timer is armed, is rejected once the timer has fired, which is
\* not before its delay has passed, and never resolves.
C4_NoResponderTimesOut ==
    \A r \in 1..Len(requests) :
        PublishedTo(requests[r].responseTopic) = <<>> =>
            /\ requests[r].state # "resolved"
            /\ requests[r].timer # "cancelled"
            /\ (requests[r].timer = "armed" => requests[r].state = "pending")
            /\ (requests[r].timer = "fired" =>
                    requests[r].state = "rejected" /\ now >= requests[r].deadline)

C4_Witness ==
    \E r \in 1..Len(requests) :
        /\ PublishedTo(requests[r].responseTopic) = <<>>
        /\ requests[r].state = "rejected"

\* C5: when the first reply to a request is published before its timer has
\* fired, also from inside the publish of the request itself, the request
\* is resolved with that reply and its timer is cancelled; as this holds in
\* every later state, the request is never rejected afterwards.
C5_ReplyResolves ==
    \A r \in 1..Len(requests) :
        LET replies == PublishedTo(requests[r].responseTopic)
        IN (replies # <<>> /\ requests[r].timer # "fired") =>
               /\ requests[r].state = "resolved"
               /\ requests[r].value = replies[1]
               /\ requests[r].value.x = ReplyBody
               /\ requests[r].timer = "cancelled"

C5_Witness ==
    /\ last.op = "request"
    /\ requests[Len(requests)].state = "resolved"
    /\ requests[Len(requests)].timer = "cancelled"

\* a glob matched against a whole name, * standing for any characters
RECURSIVE GlobHere(_, _, _, _)
GlobHere(p, i, s, j) ==
    IF i > Len(p) THEN j > Len(s)
    ELSE IF p[i] = "*" THEN \E k \in j..(Len(s) + 1) : GlobHere(p, i + 1, s, k)
    ELSE j <= Len(s) /\ p[i] = s[j] /\ GlobHere(p, i + 1, s, j + 1)

GlobMatch(p, s) == GlobHere(p, 1, s, 1)

\* whether the last call ran the callback of pattern subscription w with message
Delivered(w, message) ==
    \E i \in 1..(Len(invoked) - 1) :
        /\ invoked[i].h = w
        /\ invoked[i + 1].h = User(w.name, w.beh)
        /\ invoked[i + 1].msg.x = message.x

\* C6: after subscribePattern(glob, handler), a publish to a topic that
\* matches the glob invokes handler with the message and a publish to a
\* topic that does not match does not, however many pattern subscriptions
\* there are.
C6_PatternDelivery ==
    (last.op = "publish" /\ ~threw) =>
        \A k \in 1..Len(subscriptions) :
            StartsWithPattern(subscriptions[k].k) =>
                \A i \in 1..Len(subscriptions[k].v) :
                    LET w == subscriptions[k].v[i].handler
                    IN GlobMatch(w.pat, last.topic) <=> Delivered(w, last.msg)

\* C7: no history is longer than maxHistoryPerTopic, and each is the most
\* recent messages published to its topic, in publish order.
C7_HistoryBounded ==
    \A k \in 1..Len(messageHistory) :
        /\ Len(messageHistory[k].v) <= maxHistoryPerTopic
        /\ messageHistory[k].v = SliceLast(PublishedTo(messageHistory[k].k), maxHistoryPerTopic)

C7_Witness ==
    \E k \in 1..Len(messageHistory) :
        /\ Len(PublishedTo(messageHistory[k].k)) > maxHistoryPerTopic
        /\ Len(messageHistory[k].v) = maxHistoryPerTopic
        /\ last.op = "publish"

\* C8: a publish to a topic without subscribers appends the stamped message
\* to the topic's history: getMessageHistory(topic) ends with it.
C8_PublishWithoutSubscribersIsRecorded ==
    (last.op = "publish" /\ getSubscriberCount(last.topic) = 0) =>
        /\ getMessageHistory(last.topic, 0) # <<>>
        /\ LastOf(getMessageHistory(last.topic, 0)) = Stamped
        /\ LastOf(getMessageHistory(last.topic, 1)) = Stamped
        /\ ~threw

C8_Witness ==
    /\ last.op = "publish"
    /\ getSubscriberCount(last.topic) = 0
    /\ Len(getMessageHistory(last.topic, 0)) = 2

Without(s, h) == SelectSeq(s, LAMBDA g : g # h)
WithoutHandler(subs, h) == SelectSeq(subs, LAMBDA sub : sub.handler # h)

\* C9: unsubscribe(topic, h) removes the subscriptions of h to topic and
\* keeps every other subscription and listener; unsubscribe(topic) removes
\* all subscriptions of topic and no other; neither changes any history.
C9_UnsubscribeFrame ==
    [][/\ \A t \in Topics, h \in Handlers :
            Unsubscribe(t, h) =>
                /\ messageHistory' = messageHistory
                /\ MapGetOr(subscriptions', t, <<>>) = WithoutHandler(SubscriptionsOf(t), h)
                /\ Without(MapGetOr(listeners', t, <<>>), h) = Without(ListenersOf(t), h)
                /\ \A u \in Topics \ {t} :
                      /\ MapGetOr(subscriptions', u, <<>>) = SubscriptionsOf(u)
                      /\ MapGetOr(listeners', u, <<>>) = ListenersOf(u)
       /\ \A t \in Topics :
            UnsubscribeTopic(t) =>
                /\ messageHistory' = messageHistory
                /\ MapGetOr(subscriptions', t, <<>>) = <<>>
                /\ \A u \in Topics \ {t} :
                      /\ MapGetOr(subscriptions', u, <<>>) = SubscriptionsOf(u)
                      /\ MapGetOr(listeners', u, <<>>) = ListenersOf(u)
      ]_vars

RECURSIVE SumSubs(_)
SumSubs(i) == IF i > Len(subscriptions) THEN 0 ELSE Len(subscriptions[i].v) + SumSubs(i + 1)

\* the last subscriber of a topic with a history has just been removed,
\* while another topic keeps its subscriber
C9_Witness ==
    /\ last.op = "unsubscribe"
    /\ nextId = 2
    /\ SumSubs(1) = 1
    /\ \E t \in Topics : getSubscriberCount(t) = 0 /\ getMessageHistory(t, 0) # <<>>

(***************************************************************************)
(* BlacktopPluginManager: its calls.                                       *)
(***************************************************************************)
\* how call c of the manager ended
Ended(c, outcome, error) ==
    [op |-> c.op, id |-> c.id, outcome |-> outcome, error |-> error,
     initCalled |-> c.initCalled, module |-> c.module, loadedBefore |-> getLoadedPlugins,
     trace |-> c.trace, overlap |-> c.overlap,
     snapshot |-> c.snapshot, attempts |-> c.attempts, listening |-> c.listening,
     version |-> c.version, answers |-> c.answers]

\* what getPlugin gives for an id that is not loaded, l.1055-1057
NullPlugin == [m \in Members |-> "absent"]

\* a call that has just been made
NewCall(op, pluginId, pc) ==
    [op |-> op, id |-> pluginId, pc |-> pc, initCalled |-> FALSE, module |-> WellFormed,
     context |-> NoContext, trace |-> <<>>, overlap |-> FALSE, todo |-> <<>>,
     snapshot |-> <<>>, attempts |-> <<>>, listening |-> FALSE,
     version |-> <<>>, answers |-> NoAnswers]

\* whether two calls work on the same plugin (shutdown works on all of them)
SameTarget(c, d) == c.id = d.id \/ c.op = "shutdown" \/ d.op = "shutdown"

\* the waiting calls once call c has joined them; calls on one plugin that
\* are under way at the same time are marked as overlapping
Start(c) ==
    Append([i \in DOMAIN calls |->
               [calls[i] EXCEPT !.overlap = @ \/ SameTarget(calls[i], c)]],
           [c EXCEPT !.overlap = \E i \in DOMAIN calls : SameTarget(calls[i], c)])

\* emit(name, pluginId) when the loaded-plugin table is LP: the event, whether
\* a listener ran, and what isPluginLoaded and getPlugin gave that listener
Emit(name, pluginId, LP) ==
    [name |-> name, id |-> pluginId, heard |-> name \in pmListeners,
     loaded |-> MapHas(LP, pluginId), plugin |-> MapGetOr(LP, pluginId, NullPlugin)]

\* loadPlugin(pluginId), l.894-899: up to await require
LoadPlugin(pluginId) ==
    /\ Len(calls) < MaxCalls
    /\ calls' = Start(NewCall("load", pluginId, "require"))
    /\ pmEvents' = <<>>
    /\ pmLast' = PmIdle("call")
    /\ UNCHANGED <<installedPackages, loadedPlugins, pluginContexts, pmListeners, config>>
    /\ UNCHANGED <<msgVars, regVars, apiVars, storeVars>>

\* loadPlugin, l.899-908: require has settled; validate, create the context
\* and call initialize.  A failure is logged and thrown again, l.916-919.
LoadRequired(i) ==
    /\ calls[i].op = "load" /\ calls[i].pc = "require"
    /\ pmEvents' = <<>>
    /\ UNCHANGED <<installedPackages, loadedPlugins, pluginContexts, pmListeners, config>>
    /\ UNCHANGED <<msgVars, regVars, apiVars, storeVars>>
    /\ IF ~MapHas(installedPackages, calls[i].id)
       THEN /\ calls' = RemoveAt(calls, i)
            /\ pmLast' = Ended(calls[i], "error", Failure("require", calls[i].id))
       ELSE LET pluginModule == MapGetOr(installedPackages, calls[i].id, WellFormed)
                c == [calls[i] EXCEPT !.module = pluginModule]
                invalid == validatePluginInterface(pluginModule)
            IN IF invalid # NoError
               THEN /\ calls' = RemoveAt(calls, i)
                    /\ pmLast' = Ended(c, "error", invalid)
               ELSE /\ calls' = [calls EXCEPT ![i] =
                                    [c EXCEPT !.pc = "initialize", !.initCalled = TRUE,
                                              !.context = createPluginContext(c.id)]]
                    /\ pmLast' = PmIdle("step")


\* loadPlugin emitting pluginLoaded before it stores the instance
LoadInitializedEmitsFirst(i, ok) ==
    /\ calls[i].op = "load" /\ calls[i].pc = "initialize"
    /\ calls' = RemoveAt(calls, i)
    /\ UNCHANGED <<installedPackages, pmListeners, config>>
    /\ UNCHANGED <<msgVars, regVars, apiVars, storeVars>>
    /\ IF ok
       THEN /\ loadedPlugins' = MapSet(loadedPlugins, calls[i].id, calls[i].module)
            /\ pluginContexts' = MapSet(pluginContexts, calls[i].id, calls[i].context)
            /\ pmEvents' = <<Emit("pluginLoaded", calls[i].id, loadedPlugins)>>
            /\ pmLast' = Ended(calls[i], "ok", NoError)
       ELSE /\ UNCHANGED <<loadedPlugins, pluginContexts>>
            /\ pmEvents' = <<>>
            /\ pmLast' = Ended(calls[i], "error", Failure("initialize", calls[i].id))

\* loadPlugin storing the instance and its context before initialize has settled
LoadInitializedStoresFirst(i, ok) ==
    /\ calls[i].op = "load" /\ calls[i].pc = "initialize"
    /\ calls' = RemoveAt(calls, i)
    /\ UNCHANGED <<installedPackages, pmListeners, config>>
    /\ UNCHANGED <<msgVars, regVars, apiVars, storeVars>>
    /\ loadedPlugins' = MapSet(loadedPlugins, calls[i].id, calls[i].module)
    /\ pluginContexts' = MapSet(pluginContexts, calls[i].id, calls[i].context)
    /\ IF ok
       THEN /\ pmEvents' = <<Emit("pluginLoaded", calls[i].id, loadedPlugins')>>
            /\ pmLast' = Ended(calls[i], "ok", NoError)
       ELSE /\ pmEvents' = <<>>
            /\ pmLast' = Ended(calls[i], "error", Failure("initialize", calls[i].id))

\* loadPlugin, l.908-915: initialize(context) has settled
LoadInitialized(i, ok) ==
    /\ calls[i].op = "load" /\ calls[i].pc = "initialize"
    /\ calls' = RemoveAt(calls, i)
    /\ UNCHANGED <<installedPackages, pmListeners, config>>
    /\ UNCHANGED <<msgVars, regVars, apiVars, storeVars>>
    /\ IF ok
       THEN /\ loadedPlugins' = MapSet(loadedPlugins, calls[i].id, calls[i].module)
            /\ pluginContexts' = MapSet(pluginContexts, calls[i].id, calls[i].context)
            /\ pmEvents' = <<Emit("pluginLoaded", calls[i].id, loadedPlugins')>>
            /\ pmLast' = Ended(calls[i], "ok", NoError)
       ELSE /\ UNCHANGED <<loadedPlugins, pluginContexts>>
            /\ pmEvents' = <<>>
            /\ pmLast' = Ended(calls[i], "error", Failure("initialize", calls[i].id))

(***************************************************************************)
(* The plugin loading specification: the package installed as "weather"    *)
(* is any plugin object, "paving" is well formed if it is installed.       *)
(***************************************************************************)
InitLoading ==
    /\ InitMessaging
    /\ loadedPlugins = <<>>
    /\ pluginContexts = <<>>
    /\ calls = <<>>
    /\ pmEvents = <<>>
    /\ pmLast = PmIdle("init")
    /\ pmListeners = ApiListeners
    /\ config = PluginConfig(FALSE)
    /\ plugins = <<>>
    /\ regLast = RegIdle
    /\ InitApi
    /\ InitStore
    /\ \E plugin \in PluginObjects, paving \in BOOLEAN :
         installedPackages =
            <<[k |-> "weather", v |-> plugin]>>
            \o (IF paving THEN <<[k |-> "paving", v |-> WellFormed]>> ELSE <<>>)

NextLoading ==
    \/ \E id \in PluginIds : LoadPlugin(id)
    \/ \E i \in 1..Len(calls) : LoadRequired(i)
    \/ \E i \in 1..Len(calls), ok \in BOOLEAN : LoadInitialized(i, ok)

SpecLoading == InitLoading /\ [][NextLoading]_vars

\* the members in the order the interface lists them
InterfaceOrder == requiredProperties \o requiredMethods

\* whether member m of a plugin object is as the interface asks
Usable(plugin, m) ==
    IF m \in Range(requiredMethods) THEN plugin[m] = "function"
    ELSE plugin[m] \in {"string", "function"}

FirstMissing(plugin) ==
    InterfaceOrder[SetMin({i \in DOMAIN InterfaceOrder : ~Usable(plugin, InterfaceOrder[i])})]

\* C10: loadPlugin on a resolved object that lacks a required field or
\* method fails with an error that names the first member missing, without
\* calling initialize, without emitting pluginLoaded, and with
\* getLoadedPlugins() as it was.
C10_InvalidPluginIsNotLoaded ==
    (/\ pmLast.op = "load"
     /\ MapHas(installedPackages, pmLast.id)
     /\ \E m \in Members : pmLast.module[m] = "absent")
    => /\ pmLast.outcome = "error"
       /\ pmLast.error.kind \in {"property", "method"}
       /\ pmLast.error.member = FirstMissing(pmLast.module)
       /\ ~pmLast.initCalled
       /\ pmEvents = <<>>
       /\ getLoadedPlugins = pmLast.loadedBefore

\* a plugin without enable and without author is refused while another plugin is loaded
C10_Witness ==
    /\ pmLast.op = "load"
    /\ pmLast.outcome = "error"
    /\ pmLast.module["enable"] = "absent"
    /\ pmLast.module["author"] = "absent"
    /\ pmLast.error.member = "author"
    /\ getLoadedPlugins = <<"paving">>

(***************************************************************************)
(* BlacktopPluginManager: unload, enable, disable, uninstall.              *)
(*                                                                         *)
(* The trace of a call lists what it did to the plugin, the tables and the *)
(* installer, in the order it did it.                                      *)
(***************************************************************************)
\* call c after it has done the things named in done
Did(c, done) == [c EXCEPT !.trace = @ \o done]

\* a call that ends in the step that makes it: nothing is left waiting
EndAtOnce(c, error) ==
    /\ calls' = calls
    /\ pmEvents' = <<>>
    /\ pmLast' = Ended(c, "error", error)
    /\ UNCHANGED <<installedPackages, loadedPlugins, pluginContexts, pmListeners, config>>
    /\ UNCHANGED <<msgVars, regVars, apiVars, storeVars>>

\* a call that now waits for a promise of the plugin or of the installer
Await(c) ==
    /\ calls' = Start(c)
    /\ pmEvents' = <<>>
    /\ pmLast' = PmIdle("call")
    /\ UNCHANGED <<installedPackages, loadedPlugins, pluginContexts, pmListeners, config>>
    /\ UNCHANGED <<msgVars, regVars, apiVars, storeVars>>


\* unloadPlugin without its check that the plugin is loaded
UnloadPluginSkipsCheck(pluginId) ==
    /\ Len(calls) < MaxCalls
    /\ Await(Did([NewCall("unload", pluginId, "destroy")
                     EXCEPT !.module = MapGetOr(loadedPlugins, pluginId, NullPlugin)],
                 <<"destroy">>))

\* unloadPlugin(pluginId), l.925-935: up to await plugin.destroy()
UnloadPlugin(pluginId) ==
    /\ Len(calls) < MaxCalls
    /\ IF ~MapHas(loadedPlugins, pluginId)
       THEN EndAtOnce(NewCall("unload", pluginId, ""), Failure("notLoaded", pluginId))
       ELSE Await(Did([NewCall("unload", pluginId, "destroy")
                          EXCEPT !.module = MapGetOr(loadedPlugins, pluginId, NullPlugin)],
                      <<"destroy">>))

\* unloadPlugin removing the instance and leaving its context in the table
UnloadDestroyedKeepsContext(i, ok) ==
    /\ calls[i].op = "unload" /\ calls[i].pc = "destroy"
    /\ calls' = RemoveAt(calls, i)
    /\ UNCHANGED <<installedPackages, pluginContexts, pmListeners, config>>
    /\ UNCHANGED <<msgVars, regVars, apiVars, storeVars>>
    /\ IF ok
       THEN /\ loadedPlugins' = MapDelete(loadedPlugins, calls[i].id)
            /\ pmEvents' = <<Emit("pluginUnloaded", calls[i].id, loadedPlugins')>>
            /\ pmLast' = Ended(Did(calls[i], <<"delete", "pluginUnloaded">>), "ok", NoError)
       ELSE /\ UNCHANGED loadedPlugins
            /\ pmEvents' = <<>>
            /\ pmLast' = Ended(calls[i], "error", Failure("destroy", calls[i].id))

\* unloadPlugin, l.935-946: destroy() has settled.  When it rejected, the
\* catch block logs and throws again, and the tables are as they were.
UnloadDestroyed(i, ok) ==
    /\ calls[i].op = "unload" /\ calls[i].pc = "destroy"
    /\ calls' = RemoveAt(calls, i)
    /\ UNCHANGED <<installedPackages, pmListeners, config>>
    /\ UNCHANGED <<msgVars, regVars, apiVars, storeVars>>
    /\ IF ok
       THEN /\ loadedPlugins' = MapDelete(loadedPlugins, calls[i].id)
            /\ pluginContexts' = MapDelete(pluginContexts, calls[i].id)
            /\ pmEvents' = <<Emit("pluginUnloaded", calls[i].id, loadedPlugins')>>
            /\ pmLast' = Ended(Did(calls[i], <<"delete", "pluginUnloaded">>), "ok", NoError)
       ELSE /\ UNCHANGED <<loadedPlugins, pluginContexts>>
            /\ pmEvents' = <<>>
            /\ pmLast' = Ended(calls[i], "error", Failure("destroy", calls[i].id))

\* enablePlugin / disablePlugin, l.952-958 and l.971-977: up to the await of
\* the plugin's method
CallMethod(method, pluginId) ==
    /\ Len(calls) < MaxCalls
    /\ IF ~MapHas(loadedPlugins, pluginId)
       THEN EndAtOnce(NewCall(method, pluginId, ""), Failure("notLoaded", pluginId))
       ELSE Await(Did([NewCall(method, pluginId, method)
                          EXCEPT !.module = MapGetOr(loadedPlugins, pluginId, NullPlugin)],
                      <<method>>))


\* enablePlugin / disablePlugin emitting their event whether or not the method succeeded
MethodSettledEmitsAlways(method, event, i, ok) ==
    /\ calls[i].op = method /\ calls[i].pc = method
    /\ calls' = RemoveAt(calls, i)
    /\ UNCHANGED <<installedPackages, loadedPlugins, pluginContexts, pmListeners, config>>
    /\ UNCHANGED <<msgVars, regVars, apiVars, storeVars>>
    /\ pmEvents' = <<Emit(event, calls[i].id, loadedPlugins)>>
    /\ IF ok
       THEN pmLast' = Ended(Did(calls[i], <<event>>), "ok", NoError)
       ELSE pmLast' = Ended(calls[i], "error", Failure(method, calls[i].id))

\* enablePlugin / disablePlugin, l.958-965 and l.977-984: the method has settled
MethodSettled(method, event, i, ok) ==
    /\ calls[i].op = method /\ calls[i].pc = method
    /\ calls' = RemoveAt(calls, i)
    /\ UNCHANGED <<installedPackages, loadedPlugins, pluginContexts, pmListeners, config>>
    /\ UNCHANGED <<msgVars, regVars, apiVars, storeVars>>
    /\ IF ok
       THEN /\ pmEvents' = <<Emit(event, calls[i].id, loadedPlugins)>>
            /\ pmLast' = Ended(Did(calls[i], <<event>>), "ok", NoError)
       ELSE /\ pmEvents' = <<>>
            /\ pmLast' = Ended(calls[i], "error", Failure(method, calls[i].id))

\* enablePlugin(pluginId), l.952-966
EnablePlugin(pluginId) == CallMethod("enable", pluginId)
EnableSettled(i, ok) == MethodSettled("enable", "pluginEnabled", i, ok)

\* disablePlugin(pluginId), l.971-985
DisablePlugin(pluginId) == CallMethod("disable", pluginId)
DisableSettled(i, ok) == MethodSettled("disable", "pluginDisabled", i, ok)

\* uninstallPlugin(pluginId), l.990-1000: unloadPlugin up to await destroy()
\* when the plugin is loaded, else up to await livePluginManager.uninstall
UninstallPlugin(pluginId) ==
    /\ Len(calls) < MaxCalls
    /\ IF MapHas(loadedPlugins, pluginId)
       THEN Await(Did([NewCall("uninstall", pluginId, "destroy")
                          EXCEPT !.module = MapGetOr(loadedPlugins, pluginId, NullPlugin)],
                      <<"destroy">>))
       ELSE Await(Did(NewCall("uninstall", pluginId, "uninstall"), <<"uninstall">>))


\* uninstallPlugin asking the installer even when the unload has failed
UninstallDestroyedGoesOn(i, ok) ==
    /\ calls[i].op = "uninstall" /\ calls[i].pc = "destroy"
    /\ UNCHANGED <<installedPackages, pmListeners, config>>
    /\ UNCHANGED <<msgVars, regVars, apiVars, storeVars>>
    /\ pmLast' = PmIdle("step")
    /\ IF ok
       THEN /\ loadedPlugins' = MapDelete(loadedPlugins, calls[i].id)
            /\ pluginContexts' = MapDelete(pluginContexts, calls[i].id)
            /\ pmEvents' = <<Emit("pluginUnloaded", calls[i].id, loadedPlugins')>>
            /\ calls' = [calls EXCEPT ![i] =
                            [Did(calls[i], <<"delete", "pluginUnloaded", "uninstall">>)
                                EXCEPT !.pc = "uninstall"]]
       ELSE /\ UNCHANGED <<loadedPlugins, pluginContexts>>
            /\ pmEvents' = <<>>
            /\ calls' = [calls EXCEPT ![i] =
                            [Did(calls[i], <<"uninstall">>) EXCEPT !.pc = "uninstall"]]

\* uninstallPlugin, l.996-1000: the destroy() of its unloadPlugin has settled;
\* unloadPlugin finishes and the installer is asked to uninstall
UninstallDestroyed(i, ok) ==
    /\ calls[i].op = "uninstall" /\ calls[i].pc = "destroy"
    /\ UNCHANGED <<installedPackages, pmListeners, config>>
    /\ UNCHANGED <<msgVars, regVars, apiVars, storeVars>>
    /\ IF ok
       THEN /\ loadedPlugins' = MapDelete(loadedPlugins, calls[i].id)
            /\ pluginContexts' = MapDelete(pluginContexts, calls[i].id)
            /\ pmEvents' = <<Emit("pluginUnloaded", calls[i].id, loadedPlugins')>>
            /\ calls' = [calls EXCEPT ![i] =
                            [Did(calls[i], <<"delete", "pluginUnloaded", "uninstall">>)
                                EXCEPT !.pc = "uninstall"]]
            /\ pmLast' = PmIdle("step")
       ELSE /\ UNCHANGED <<loadedPlugins, pluginContexts>>
            /\ calls' = RemoveAt(calls, i)
            /\ pmEvents' = <<>>
            /\ pmLast' = Ended(calls[i], "error", Failure("destroy", calls[i].id))

\* uninstallPlugin, l.1000-1007: livePluginManager.uninstall has settled
UninstallSettled(i, ok) ==
    /\ calls[i].op = "uninstall" /\ calls[i].pc = "uninstall"
    /\ calls' = RemoveAt(calls, i)
    /\ UNCHANGED <<loadedPlugins, pluginContexts, pmListeners, config>>
    /\ UNCHANGED <<msgVars, regVars, apiVars, storeVars>>
    /\ IF ok
       THEN /\ installedPackages' = MapDelete(installedPackages, calls[i].id)
            /\ pmEvents' = <<Emit("pluginUninstalled", calls[i].id, loadedPlugins)>>
            /\ pmLast' = Ended(Did(calls[i], <<"pluginUninstalled">>), "ok", NoError)
       ELSE /\ UNCHANGED installedPackages
            /\ pmEvents' = <<>>
            /\ pmLast' = Ended(calls[i], "error", Failure("uninstall", calls[i].id))

(***************************************************************************)
(* The plugin lifecycle specification: two well-formed plugins are         *)
(* installed, and calls of the manager overlap.                            *)
(***************************************************************************)
InitLifecycle ==
    /\ InitMessaging
    /\ installedPackages = <<[k |-> "weather", v |-> WellFormed],
                             [k |-> "paving", v |-> WellFormed]>>
    /\ loadedPlugins = <<>>
    /\ pluginContexts = <<>>
    /\ calls = <<>>
    /\ pmEvents = <<>>
    /\ pmLast = PmIdle("init")
    /\ pmListeners = ApiListeners
    /\ config = PluginConfig(FALSE)
    /\ plugins = <<>>
    /\ regLast = RegIdle
    /\ InitApi
    /\ InitStore

NextLifecycle ==
    \/ \E id \in PluginIds : LoadPlugin(id)
    \/ \E i \in 1..Len(calls) : LoadRequired(i)
    \/ \E i \in 1..Len(calls), ok \in BOOLEAN : LoadInitialized(i, ok)
    \/ \E id \in PluginIds : UnloadPlugin(id)
    \/ \E i \in 1..Len(calls), ok \in BOOLEAN : UnloadDestroyed(i, ok)
    \/ \E id \in PluginIds : EnablePlugin(id)
    \/ \E i \in 1..Len(calls), ok \in BOOLEAN : EnableSettled(i, ok)
    \/ \E id \in PluginIds : DisablePlugin(id)
    \/ \E i \in 1..Len(calls), ok \in BOOLEAN : DisableSettled(i, ok)
    \/ \E id \in PluginIds : UninstallPlugin(id)
    \/ \E i \in 1..Len(calls), ok \in BOOLEAN : UninstallDestroyed(i, ok)
    \/ \E i \in 1..Len(calls), ok \in BOOLEAN : UninstallSettled(i, ok)

SpecLifecycle == InitLifecycle /\ [][NextLifecycle]_vars

\* call op(pluginId) of the manager is made in this step
CalledIn(op, pluginId) ==
    \/ /\ Len(calls') = Len(calls) + 1
       /\ LastOf(calls').op = op /\ LastOf(calls').id = pluginId
    \/ /\ calls' = calls
       /\ pmLast'.op = op /\ pmLast'.id = pluginId

\* a waiting call op(pluginId) ends in this step
EndedIn(op, pluginId) ==
    /\ Len(calls') = Len(calls) - 1
    /\ pmLast'.op = op /\ pmLast'.id = pluginId

\* C11: when destroy() fails during unloadPlugin(id), the call fails and id
\* is in neither the loaded-plugin table nor the context table afterwards.
C11_DestroyFailureStillUnloads ==
    (/\ pmLast.op = "unload"
     /\ pmLast.error.kind = "destroy"
     /\ ~pmLast.overlap)
    => /\ pmLast.outcome = "error"
       /\ ~MapHas(loadedPlugins, pmLast.id)
       /\ ~MapHas(pluginContexts, pmLast.id)

\* C12: unloadPlugin(id) for an id that is not loaded fails with the
\* not-loaded error in the step that calls it, calls no destroy(), emits no
\* event and leaves the loaded-plugin and context tables as they were.
C12_UnloadOfNotLoaded ==
    [][\A id \in PluginIds :
          (CalledIn("unload", id) /\ ~MapHas(loadedPlugins, id))
          => /\ calls' = calls
             /\ pmLast'.outcome = "error"
             /\ pmLast'.error = Failure("notLoaded", id)
             /\ pmLast'.trace = <<>>
             /\ pmEvents' = <<>>
             /\ loadedPlugins' = loadedPlugins
             /\ pluginContexts' = pluginContexts]_vars

\* unloadPlugin of a plugin that is not loaded has failed while the other plugin is loaded
C12_Witness ==
    /\ pmLast.op = "unload"
    /\ pmLast.error.kind = "notLoaded"
    /\ Len(loadedPlugins) = 1
    /\ ~MapHas(loadedPlugins, pmLast.id)

\* C13: a loadPlugin(id) that succeeds has stored the instance and its
\* context and emitted one pluginLoaded event for id, and the listener of
\* that event found isPluginLoaded(id) true and getPlugin(id) the instance.
C13_LoadedBeforeEvent ==
    (pmLast.op = "load" /\ pmLast.outcome = "ok")
    => /\ MapGetOr(loadedPlugins, pmLast.id, NullPlugin) = pmLast.module
       /\ MapGetOr(pluginContexts, pmLast.id, NoContext) = createPluginContext(pmLast.id)
       /\ Len(pmEvents) = 1
       /\ pmEvents[1].name = "pluginLoaded"
       /\ pmEvents[1].id = pmLast.id
       /\ pmEvents[1].heard
       /\ pmEvents[1].loaded
       /\ pmEvents[1].plugin = pmLast.module

\* the second plugin has just been loaded and its event heard
C13_Witness ==
    /\ pmLast.op = "load"
    /\ pmLast.outcome = "ok"
    /\ Len(loadedPlugins) = 2
    /\ Len(pmEvents) = 1
    /\ pmEvents[1].heard

\* the event enablePlugin / disablePlugin emits
EventOf(method) == IF method = "enable" THEN "pluginEnabled" ELSE "pluginDisabled"

\* C14: enablePlugin(id) and disablePlugin(id) fail with the not-loaded error
\* and without an event when id is not loaded; when id is loaded they call
\* the method of the instance and emit their event only in the step in which
\* that call has succeeded; no step of theirs changes the loaded-plugin table.
C14_EnableDisable ==
    [][\A id \in PluginIds, method \in {"enable", "disable"} :
          /\ (CalledIn(method, id) /\ ~MapHas(loadedPlugins, id))
             => /\ calls' = calls
                /\ pmLast'.outcome = "error"
                /\ pmLast'.error = Failure("notLoaded", id)
                /\ pmLast'.trace = <<>>
                /\ pmEvents' = <<>>
          /\ (CalledIn(method, id) /\ MapHas(loadedPlugins, id))
             => /\ Len(calls') = Len(calls) + 1
                /\ LastOf(calls').trace = <<method>>
                /\ pmEvents' = <<>>
          /\ EndedIn(method, id)
             => /\ pmLast'.outcome = "ok" =>
                    /\ pmLast'.trace = <<method, EventOf(method)>>
                    /\ Len(pmEvents') = 1
                    /\ pmEvents'[1].name = EventOf(method)
                    /\ pmEvents'[1].id = id
                /\ pmLast'.outcome # "ok" =>
                    /\ pmLast'.error = Failure(method, id)
                    /\ pmEvents' = <<>>
          /\ (CalledIn(method, id) \/ EndedIn(method, id))
             => loadedPlugins' = loadedPlugins]_vars

\* disable() of a loaded plugin has succeeded and pluginDisabled was emitted
C14_Witness ==
    /\ pmLast.op = "disable"
    /\ pmLast.outcome = "ok"
    /\ MapHas(loadedPlugins, pmLast.id)
    /\ Len(pmEvents) = 1
    /\ pmEvents[1].name = "pluginDisabled"

\* C15: uninstallPlugin(id) on a loaded plugin does destroy(), the removal
\* from the tables, the installer's uninstall and the pluginUninstalled
\* event in that order; when it succeeds id is not installed and, no other
\* call on id having overlapped, not loaded; when destroy() fails the
\* installer is not asked and pluginUninstalled is not emitted.
C15_UninstallOrder ==
    (/\ pmLast.op = "uninstall"
     /\ pmLast.trace # <<>>
     /\ pmLast.trace[1] = "destroy")
    => /\ pmLast.outcome = "ok" =>
            /\ pmLast.trace = <<"destroy", "delete", "pluginUnloaded", "uninstall",
                                "pluginUninstalled">>
            /\ Len(pmEvents) = 1
            /\ pmEvents[1].name = "pluginUninstalled"
            /\ ~MapHas(installedPackages, pmLast.id)
            /\ ~pmLast.overlap => ~MapHas(loadedPlugins, pmLast.id)
       /\ pmLast.error.kind = "destroy" =>
            /\ pmLast.outcome = "error"
            /\ pmLast.trace = <<"destroy">>
            /\ pmEvents = <<>>

\* a loaded plugin has been uninstalled, alone, while the other one stays loaded
C15_Witness ==
    /\ pmLast.op = "uninstall"
    /\ pmLast.outcome = "ok"
    /\ pmLast.trace[1] = "destroy"
    /\ ~pmLast.overlap
    /\ Len(loadedPlugins) = 1
    /\ ~MapHas(installedPackages, pmLast.id)

(***************************************************************************)
(* BlacktopPluginManager.shutdown, l.1130-1145.                            *)
(*                                                                         *)
(* The call keeps the ids it found loaded (snapshot), the ids it has still *)
(* to unload (todo) and, for every unloadPlugin it has awaited, how that   *)
(* ended and whether a pluginUnloaded listener ran (attempts).             *)
(***************************************************************************)
Attempt(pluginId, result, heard) == [id |-> pluginId, result |-> result, heard |-> heard]

\* the loop of shutdown giving up at the first unload that fails
ShutdownLoopStopsAtFailure(c, LP) ==
    IF c.todo = <<>> \/ (c.attempts # <<>> /\ LastOf(c.attempts).result # "ok")
    THEN [c EXCEPT !.pc = "done"]
    ELSE IF ~MapHas(LP, Head(c.todo))
         THEN [c EXCEPT !.pc = "done", !.todo = Tail(@),
                        !.attempts = Append(@, Attempt(Head(c.todo), "notLoaded", FALSE))]
         ELSE Did([c EXCEPT !.pc = "destroy"], <<"destroy">>)

\* the for loop of shutdown, l.1135-1141, as far as it runs without waiting:
\* unloadPlugin throws at once for an id that is no longer in the table LP,
\* which the loop logs, and waits for destroy() otherwise
RECURSIVE ShutdownLoop(_, _)
ShutdownLoop(c, LP) ==
    IF c.todo = <<>> THEN [c EXCEPT !.pc = "done"]
    ELSE IF ~MapHas(LP, Head(c.todo))
         THEN ShutdownLoop([c EXCEPT !.todo = Tail(@),
                                     !.attempts = Append(@, Attempt(Head(c.todo), "notLoaded", FALSE))],
                           LP)
         ELSE Did([c EXCEPT !.pc = "destroy"], <<"destroy">>)

\* shutdown after its loop has come to call c: wait, or release the
\* listeners (l.1143) and return
\* (i is its place among the waiting calls, 0 for a call just made)
ShutdownGoesOn(c, i) ==
    IF c.pc = "done"
    THEN /\ calls' = (IF i = 0 THEN calls ELSE RemoveAt(calls, i))
         /\ pmListeners' = {}
         /\ pmLast' = Ended(Did(c, <<"removeAllListeners">>), "ok", NoError)
    ELSE /\ calls' = (IF i = 0 THEN Start(c) ELSE [calls EXCEPT ![i] = c])
         /\ pmListeners' = pmListeners
         /\ pmLast' = PmIdle("step")

\* shutdown(), l.1130-1141: up to the first await of a destroy()
Shutdown ==
    /\ Len(calls) < MaxCalls
    /\ \A i \in 1..Len(calls) : calls[i].op # "shutdown"
    /\ pmEvents' = <<>>
    /\ UNCHANGED <<installedPackages, loadedPlugins, pluginContexts, config>>
    /\ UNCHANGED <<msgVars, regVars, apiVars, storeVars>>
    /\ ShutdownGoesOn(ShutdownLoop([NewCall("shutdown", "", "loop")
                                       EXCEPT !.snapshot = MapKeys(loadedPlugins),
                                              !.todo = MapKeys(loadedPlugins),
                                              !.listening = "pluginUnloaded" \in pmListeners],
                                   loadedPlugins),
                      0)

\* shutdown, l.1137-1145: the destroy() of the unloadPlugin it waits for has
\* settled; unloadPlugin finishes or throws, and the loop goes on
ShutdownDestroyed(i, ok) ==
    /\ calls[i].op = "shutdown" /\ calls[i].pc = "destroy"
    /\ UNCHANGED <<installedPackages, config>>
    /\ UNCHANGED <<msgVars, regVars, apiVars, storeVars>>
    /\ LET pluginId == Head(calls[i].todo)
           heard == "pluginUnloaded" \in pmListeners
           c == IF ok
                THEN [Did(calls[i], <<"delete", "pluginUnloaded">>)
                         EXCEPT !.todo = Tail(@),
                                !.attempts = Append(@, Attempt(pluginId, "ok", heard))]
                ELSE [calls[i] EXCEPT !.todo = Tail(@),
                                      !.attempts = Append(@, Attempt(pluginId, "destroy", FALSE))]
       IN /\ IF ok
             THEN /\ loadedPlugins' = MapDelete(loadedPlugins, pluginId)
                  /\ pluginContexts' = MapDelete(pluginContexts, pluginId)
                  /\ pmEvents' = <<Emit("pluginUnloaded", pluginId, loadedPlugins')>>
             ELSE /\ UNCHANGED <<loadedPlugins, pluginContexts>>
                  /\ pmEvents' = <<>>
          /\ ShutdownGoesOn(ShutdownLoop(c, loadedPlugins'), i)

(***************************************************************************)
(* The shutdown specification: plugins are loaded and unloaded while       *)
(* shutdown runs, one shutdown at a time.  A destroy() that shutdown waits *)
(* for settles.                                                            *)
(***************************************************************************)
NextShutdown ==
    \/ \E id \in PluginIds : LoadPlugin(id)
    \/ \E i \in 1..Len(calls) : LoadRequired(i)
    \/ \E i \in 1..Len(calls), ok \in BOOLEAN : LoadInitialized(i, ok)
    \/ \E id \in PluginIds : UnloadPlugin(id)
    \/ \E i \in 1..Len(calls), ok \in BOOLEAN : UnloadDestroyed(i, ok)
    \/ Shutdown
    \/ \E i \in 1..Len(calls), ok \in BOOLEAN : ShutdownDestroyed(i, ok)

SpecShutdown ==
    /\ InitLifecycle
    /\ [][NextShutdown]_vars
    /\ WF_vars(\E i \in 1..Len(calls), ok \in BOOLEAN : ShutdownDestroyed(i, ok))

\* what an ended shutdown() has done
ShutdownDone ==
    pmLast.op = "shutdown"
    => /\ pmLast.outcome = "ok"
       /\ [i \in 1..Len(pmLast.attempts) |-> pmLast.attempts[i].id] = pmLast.snapshot
       /\ \A i \in 1..Len(pmLast.attempts) :
             pmLast.attempts[i].result = "ok" => pmLast.attempts[i].heard = pmLast.listening
       /\ \A i \in 1..Len(pmLast.trace) :
             pmLast.trace[i] = "removeAllListeners" <=> i = Len(pmLast.trace)
       /\ pmListeners = {}

\* a shutdown() is under way
ShutdownRunning == \E i \in 1..Len(calls) : calls[i].op = "shutdown"

Includes(s, sub) ==
    \E i \in 0..(Len(s) - Len(sub)) : SubSeq(s, i + 1, i + Len(sub)) = sub

\* whether some trusted source occurs in the package spec, l.1098
FromTrustedSource(packageSpec) ==
    \E i \in DOMAIN config.trustedSources : Includes(packageSpec, config.trustedSources[i])

\* verifyPluginSignature refusing a package that is not from a trusted source
verifyPluginSignatureBlocks(packageSpec, version, answers) ==
    IF ~FromTrustedSource(packageSpec)
    THEN [trace |-> <<"warn">>, error |-> Failure("untrusted", packageSpec)]
    ELSE [trace |-> <<"getInfo">>,
          error |-> IF answers.getInfo = "reject" THEN Failure("getInfo", packageSpec)
                    ELSE NoError]

\* verifyPluginSignature, l.1094-1108: what it did ("warn" is the warning it
\* logs) and the error it throws, or NoError
verifyPluginSignature(packageSpec, version, answers) ==
    [trace |-> (IF ~FromTrustedSource(packageSpec) THEN <<"warn">> ELSE <<>>) \o <<"getInfo">>,
     error |-> IF answers.getInfo = "reject" THEN Failure("getInfo", packageSpec)
               ELSE NoError]

\* installPlugin, l.872-889: what it did, how it ended and the package name
\* it gave the installer
installPlugin(packageSpec, version, answers) ==
    LET verified == IF config.sandboxEnabled
                    THEN verifyPluginSignature(packageSpec, version, answers)
                    ELSE [trace |-> <<>>, error |-> NoError]
        packageName == IF version # <<>> THEN packageSpec \o <<"@">> \o version
                       ELSE packageSpec
    IN IF verified.error # NoError
       THEN [outcome |-> "error", error |-> verified.error, trace |-> verified.trace,
             packageName |-> <<>>]
       ELSE [outcome |-> IF answers.install = "ok" THEN "ok" ELSE "error",
             error |-> IF answers.install = "ok" THEN NoError
                       ELSE Failure("install", packageSpec),
             trace |-> verified.trace \o <<"install">>,
             packageName |-> packageName]

PackageWeather == <<"w", "e", "a", "t", "h", "e", "r">>
\* a package of the trusted scope, one of the trusted repository owner, and
\* one whose scope is only the beginning of the trusted one
ScopedWeather == SourceScope \o <<"/">> \o PackageWeather
GithubWeather == SourceGithub \o <<"/">> \o PackageWeather
OtherScopeWeather == SubSeq(SourceScope, 1, 9) \o <<"/">> \o PackageWeather
PackageSpecs == {PackageWeather, ScopedWeather, GithubWeather, OtherScopeWeather}

Versions == {<<>>, <<"1", ".", "0", ".", "0">>}
Answers == [getInfo : {"info", "null", "reject"}, install : {"ok", "reject"}]

\* installPlugin(packageSpec, version), the installer answering as in answers
InstallPlugin(packageSpec, version, answers) ==
    LET done == installPlugin(packageSpec, version, answers)
    IN /\ installedPackages' =
             (IF done.outcome = "ok" THEN MapSet(installedPackages, packageSpec, WellFormed)
              ELSE installedPackages)
       /\ pmLast' = Ended([NewCall("install", packageSpec, "")
                              EXCEPT !.version = version, !.answers = answers,
                                     !.trace = done.trace],
                          done.outcome, done.error)
       /\ pmEvents' = <<>>
       /\ UNCHANGED <<loadedPlugins, pluginContexts, calls, pmListeners, config>>
       /\ UNCHANGED <<msgVars, regVars, apiVars, storeVars>>

(***************************************************************************)
(* The installation specification: a manager with or without sandboxing.   *)
(***************************************************************************)
InitInstall ==
    /\ InitMessaging
    /\ installedPackages = <<>>
    /\ loadedPlugins = <<>>
    /\ pluginContexts = <<>>
    /\ calls = <<>>
    /\ pmEvents = <<>>
    /\ pmLast = PmIdle("init")
    /\ pmListeners = ApiListeners
    /\ \E sandboxEnabled \in BOOLEAN : config = PluginConfig(sandboxEnabled)
    /\ plugins = <<>>
    /\ regLast = RegIdle
    /\ InitApi
    /\ InitStore

NextInstall ==
    \E packageSpec \in PackageSpecs, version \in Versions, answers \in Answers :
        InstallPlugin(packageSpec, version, answers)

SpecInstall == InitInstall /\ [][NextInstall]_vars

\* the calls to the installer in a trace
InstallerCalls(trace) == SelectSeq(trace, LAMBDA step : step \in {"getInfo", "install"})

\* C17: with sandboxing enabled, what installPlugin asks of the installer
\* and how it ends do not depend on whether the package spec matches the
\* allow-list: any other package spec, with the same version and the same
\* answers of the installer, gives the same calls and the same outcome; the
\* installer is asked to install unless its getInfo has failed.
C17_UntrustedIsNotBlocked ==
    (pmLast.op = "install" /\ config.sandboxEnabled)
    => /\ \A other \in PackageSpecs :
            LET twin == installPlugin(other, pmLast.version, pmLast.answers)
            IN /\ twin.outcome = pmLast.outcome
               /\ twin.error.kind = pmLast.error.kind
               /\ InstallerCalls(twin.trace) = InstallerCalls(pmLast.trace)
       /\ pmLast.answers.getInfo # "reject" => "install" \in Range(pmLast.trace)
       /\ (pmLast.answers.getInfo # "reject" /\ pmLast.answers.install = "ok")
            => pmLast.outcome = "ok" /\ MapHas(installedPackages, pmLast.id)

\* a package that is not from a trusted source has been installed, after the
\* warning, next to one that is
C17_Witness ==
    /\ pmLast.op = "install"
    /\ config.sandboxEnabled
    /\ ~FromTrustedSource(pmLast.id)
    /\ "warn" \in Range(pmLast.trace)
    /\ pmLast.outcome = "ok"
    /\ MapHas(installedPackages, ScopedWeather)
    /\ MapHas(installedPackages, pmLast.id)

(***************************************************************************)
(* PluginRegistry, l.1151-1223.                                            *)
(*                                                                         *)
(* Of a ModuleMetadata the model keeps the fields the registry reads or    *)
(* writes: id, name, type, description, tags, lastUpdated.  The texts that *)
(* searchPlugins looks into are sequences of characters.                   *)
(***************************************************************************)
UpperCase == <<"A", "B", "C", "D", "E", "F", "G", "H", "I", "J", "K", "L", "M",
               "N", "O", "P", "Q", "R", "S", "T", "U", "V", "W", "X", "Y", "Z">>
LowerCase == <<"a", "b", "c", "d", "e", "f", "g", "h", "i", "j", "k", "l", "m",
               "n", "o", "p", "q", "r", "s", "t", "u", "v", "w", "x", "y", "z">>

\* the lower-case letter of every upper-case letter
LowerOf ==
    [c \in Range(UpperCase) |-> LowerCase[CHOOSE k \in DOMAIN UpperCase : UpperCase[k] = c]]

\* String.prototype.toLowerCase
toLowerCase(s) ==
    [i \in DOMAIN s |-> IF s[i] \in DOMAIN LowerOf THEN LowerOf[s[i]] ELSE s[i]]

\* registerPlugin(metadata), l.1162-1165: the map it leaves
registerPlugin(metadata) == MapSet(plugins, metadata.id, metadata)

\* unregisterPlugin emptying the registry
unregisterPluginClears(pluginId) == <<>>

\* unregisterPlugin(pluginId), l.1170-1173: the map it leaves
unregisterPlugin(pluginId) == MapDelete(plugins, pluginId)

\* getPluginMetadata(pluginId), l.1178-1180
getPluginMetadata(pluginId) == MapGetOr(plugins, pluginId, NullMetadata)

\* getAllPlugins(), l.1185-1187
getAllPlugins == [i \in 1..Len(plugins) |-> plugins[i].v]

\* searchPlugins comparing the texts as they are written
searchPluginsCaseSensitive(query, type) ==
    SelectSeq(getAllPlugins,
              LAMBDA plugin :
                 /\ \/ Includes(plugin.name, query)
                    \/ Includes(plugin.description, query)
                    \/ \E i \in DOMAIN plugin.tags : Includes(plugin.tags[i], query)
                 /\ (type = NoType \/ plugin.type = type))

\* searchPlugins(query, type), l.1192-1205
searchPlugins(query, type) ==
    LET lowerQuery == toLowerCase(query)
    IN SelectSeq(getAllPlugins,
                 LAMBDA plugin :
                    LET matchesQuery ==
                            \/ Includes(toLowerCase(plugin.name), lowerQuery)
                            \/ Includes(toLowerCase(plugin.description), lowerQuery)
                            \/ \E i \in DOMAIN plugin.tags :
                                  Includes(toLowerCase(plugin.tags[i]), lowerQuery)
                        matchesType == type = NoType \/ plugin.type = type
                    IN matchesQuery /\ matchesType)

\* { ...existing, ...updates, lastUpdated: new Date() }, l.1220
Spread(existing, updates, time) ==
    [f \in DOMAIN existing \cup DOMAIN updates \cup {"lastUpdated"} |->
        IF f = "lastUpdated" THEN time
        ELSE IF f \in DOMAIN updates THEN updates[f]
        ELSE existing[f]]

\* updatePluginMetadata storing what it was given in place of the entry
updatePluginMetadataReplaces(pluginId, updates) ==
    IF MapHas(plugins, pluginId) THEN MapSet(plugins, pluginId, updates)
    ELSE plugins

\* updatePluginMetadata(pluginId, updates), l.1217-1223: the map it leaves
updatePluginMetadata(pluginId, updates) ==
    IF MapHas(plugins, pluginId)
    THEN MapSet(plugins, pluginId, Spread(getPluginMetadata(pluginId), updates, now))
    ELSE plugins

\* the texts of the metadata and of the queries
NameWeather == <<"W", "e", "a", "t", "h", "e", "r">>
NamePaving == <<"P", "a", "v", "e">>
DescriptionRain == <<"R", "A", "I", "N">>
DescriptionRoad == <<"r", "o", "a", "d">>
TagsHot == << <<"H", "o", "t">>, <<"a", "i">> >>
TagsNone == <<>>

Metadata(pluginId, name, type, description, tags) ==
    [id |-> pluginId, name |-> name, type |-> type, description |-> description,
     tags |-> tags, lastUpdated |-> NoTime]

\* what callers register
MetadataInputs ==
    {Metadata("weather", NameWeather, "backend", DescriptionRain, TagsNone),
     Metadata("weather", NamePaving, "core", DescriptionRoad, TagsHot),
     Metadata("paving", NamePaving, "core", DescriptionRoad, TagsHot)}

\* the partial metadata callers update with
PartialInputs ==
    {[name |-> NameWeather],
     [type |-> "backend", tags |-> TagsNone],
     [description |-> DescriptionRain, lastUpdated |-> NoTime],
     [id |-> "paving"]}

Queries ==
    {<<>>, <<"w", "e", "a", "t", "h">>, <<"H", "O", "T">>, <<"R", "o">>}
TypeInputs == {NoType, "core"}

\* registerPlugin(metadata), l.1162-1165
RegisterPlugin(metadata) ==
    /\ plugins' = registerPlugin(metadata)
    /\ regLast' = RegCall("register", metadata.id, metadata, <<>>, NoType, <<>>,
                          MapHas(plugins, metadata.id))
    /\ UNCHANGED <<msgVars, pmVars, apiVars, storeVars>>

\* unregisterPlugin(pluginId), l.1170-1173
UnregisterPlugin(pluginId) ==
    /\ plugins' = unregisterPlugin(pluginId)
    /\ regLast' = RegCall("unregister", pluginId, NullMetadata, <<>>, NoType, <<>>,
                          MapHas(plugins, pluginId))
    /\ UNCHANGED <<msgVars, pmVars, apiVars, storeVars>>

\* searchPlugins(query, type), l.1192-1205
SearchPlugins(query, type) ==
    /\ regLast' = RegCall("search", "", NullMetadata, query, type,
                          searchPlugins(query, type), FALSE)
    /\ UNCHANGED plugins
    /\ UNCHANGED <<msgVars, pmVars, apiVars, storeVars>>

\* updatePluginMetadata(pluginId, updates), l.1217-1223
UpdatePluginMetadata(pluginId, updates) ==
    /\ plugins' = updatePluginMetadata(pluginId, updates)
    /\ regLast' = RegCall("update", pluginId, updates, <<>>, NoType, <<>>,
                          MapHas(plugins, pluginId))
    /\ UNCHANGED <<msgVars, pmVars, apiVars, storeVars>>

(***************************************************************************)
(* The registry specification: a registry next to a plugin manager that    *)
(* has nothing loaded, or has loaded "weather".                            *)
(***************************************************************************)
InitRegistry ==
    /\ InitMessaging
    /\ installedPackages = <<[k |-> "weather", v |-> WellFormed],
                             [k |-> "paving", v |-> WellFormed]>>
    /\ \E loaded \in BOOLEAN :
         /\ loadedPlugins = (IF loaded THEN <<[k |-> "weather", v |-> WellFormed]>> ELSE <<>>)
         /\ pluginContexts = (IF loaded THEN <<[k |-> "weather", v |-> createPluginContext("weather")]>>
                              ELSE <<>>)
    /\ calls = <<>>
    /\ pmEvents = <<>>
    /\ pmLast = PmIdle("init")
    /\ pmListeners = ApiListeners
    /\ config = PluginConfig(FALSE)
    /\ plugins = <<>>
    /\ regLast = RegIdle
    /\ InitApi
    /\ InitStore

NextRegistry ==
    \/ \E metadata \in MetadataInputs : RegisterPlugin(metadata)
    \/ \E id \in PluginIds : UnregisterPlugin(id)
    \/ \E query \in Queries, type \in TypeInputs : SearchPlugins(query, type)
    \/ \E id \in PluginIds, updates \in PartialInputs : UpdatePluginMetadata(id, updates)
    \/ Tick

SpecRegistry == InitRegistry /\ [][NextRegistry]_vars

\* the registry call op on pluginId is made in this step
RegistryStep(op, pluginId) ==
    /\ regLast'.op = op /\ regLast'.id = pluginId
    /\ UNCHANGED <<msgVars, pmVars, apiVars, storeVars>>

\* C18 as stated: after registerPlugin or updatePluginMetadata for an id
\* in the registry, getPluginMetadata(id) is exactly the value that call
\* was given.
C18_LookupReturnsLastPassed ==
    (regLast.op \in {"register", "update"} /\ MapHas(plugins, regLast.id))
    => getPluginMetadata(regLast.id) = regLast.arg

\* C18, amended: after registerPlugin(m), getPluginMetadata(m.id) is exactly
\* m; after updatePluginMetadata(id, partial) on a registered id it is the
\* entry there was, with the fields of the partial in place of its own and
\* lastUpdated the time of the call; on an id that is not registered
\* updatePluginMetadata stores nothing; neither call changes another entry.
C18_LookupReturnsMerged ==
    [][\A id \in PluginIds :
          /\ RegistryStep("register", id)
             => getPluginMetadata(id)' = regLast'.arg
          /\ (RegistryStep("update", id) /\ MapHas(plugins, id))
             => /\ DOMAIN getPluginMetadata(id)' =
                      DOMAIN getPluginMetadata(id) \cup DOMAIN regLast'.arg \cup {"lastUpdated"}
                /\ \A f \in DOMAIN getPluginMetadata(id)' :
                      getPluginMetadata(id)'[f] =
                         (IF f = "lastUpdated" THEN now
                          ELSE IF f \in DOMAIN regLast'.arg THEN regLast'.arg[f]
                          ELSE getPluginMetadata(id)[f])
          /\ (RegistryStep("update", id) /\ ~MapHas(plugins, id))
             => plugins' = plugins
          /\ (RegistryStep("register", id) \/ RegistryStep("update", id))
             => \A other \in PluginIds \ {id} :
                   getPluginMetadata(other)' = getPluginMetadata(other)]_vars

\* an entry registered at time 0 was updated later with a partial that names
\* one field: the lookup gives the merged entry, not the partial
C18_Witness ==
    /\ regLast.op = "update"
    /\ regLast.found
    /\ DOMAIN regLast.arg = {"name"}
    /\ getPluginMetadata(regLast.id).name = regLast.arg.name
    /\ getPluginMetadata(regLast.id).lastUpdated = 1
    /\ getPluginMetadata(regLast.id).tags = TagsHot
    /\ Len(plugins) = 2

\* letters a and b are the same but for their case
SameLetter(a, b) ==
    \/ a = b
    \/ \E k \in DOMAIN UpperCase : {a, b} = {UpperCase[k], LowerCase[k]}

\* query occurs in text, case apart
OccursIn(query, text) ==
    \E k \in 0..(Len(text) - Len(query)) :
        \A j \in 1..Len(query) : SameLetter(text[k + j], query[j])

\* C19: searchPlugins(q, t) returns the registered entries, in the order of
\* their registration, that have q, case apart, in their name, their
\* description or one of their tags and whose type is t when t is given:
\* each of them and no other.
C19_SearchIsExact ==
    regLast.op = "search"
    => regLast.result =
          SelectSeq(getAllPlugins,
                    LAMBDA entry :
                       /\ \/ OccursIn(regLast.query, entry.name)
                          \/ OccursIn(regLast.query, entry.description)
                          \/ \E i \in DOMAIN entry.tags : OccursIn(regLast.query, entry.tags[i])
                       /\ (regLast.type # NoType => entry.type = regLast.type))

\* a query in capitals has found, by a tag written otherwise, one of two
\* entries; the other is of another type
C19_Witness ==
    /\ regLast.op = "search"
    /\ regLast.query = <<"H", "O", "T">>
    /\ regLast.type = "core"
    /\ Len(plugins) = 2
    /\ Len(regLast.result) = 1
    /\ regLast.result[1].tags = TagsHot
    /\ \E i \in 1..2 : plugins[i].v.type = "backend"

\* C20: unregisterPlugin(id) leaves no entry under id, so that
\* getPluginMetadata(id) is null and every search returns only entries kept
\* under other ids; it changes nothing when id is not registered; it leaves
\* the other entries and the manager's loaded-plugin table as they were.
C20_UnregisterFrame ==
    [][\A id \in PluginIds :
          RegistryStep("unregister", id)
          => /\ ~MapHas(plugins', id)
             /\ getPluginMetadata(id)' = NullMetadata
             /\ \A query \in Queries, type \in TypeInputs :
                   LET found == searchPlugins(query, type)'
                   IN \A i \in 1..Len(found) :
                         \E other \in PluginIds \ {id} : getPluginMetadata(other)' = found[i]
             /\ \A other \in PluginIds \ {id} :
                   getPluginMetadata(other)' = getPluginMetadata(other)
             /\ ~MapHas(plugins, id) => plugins' = plugins
             /\ loadedPlugins' = loadedPlugins
             /\ pluginContexts' = pluginContexts]_vars

\* the entry of a loaded plugin has been unregistered; the plugin is loaded
\* and the other entry is still found
C20_Witness ==
    /\ regLast.op = "unregister"
    /\ regLast.found
    /\ isPluginLoaded(regLast.id)
    /\ Len(plugins) = 1
    /\ Len(searchPlugins(<<>>, NoType)) = 1

(***************************************************************************)
(* The events of enablePlugin and disablePlugin when calls overlap.        *)
(***************************************************************************)
\* C29: for every interleaving of load, unload, enable and disable on one
\* id, a pluginEnabled or pluginDisabled event for the id is emitted only
\* while the id is in the loaded-plugin table.
C29_EnabledOnlyWhileLoaded ==
    \A k \in 1..Len(pmEvents) :
        pmEvents[k].name \in {"pluginEnabled", "pluginDisabled"} => pmEvents[k].loaded

(***************************************************************************)
(* The plugin router, api/src/routes/plugin.routes.ts.                     *)
(*                                                                         *)
(* A path is the sequence of its segments below /api/plugins, a segment a  *)
(* sequence of characters, and so is a plugin id here.  The routes are     *)
(* asked in the order of their registration and the first one that matches *)
(* the method and the path handles the request; no handler calls next().   *)
(* A handler that awaits the plugin manager goes on when the manager's     *)
(* call has ended, before anything else runs.                              *)
(***************************************************************************)
SegSearch == <<"s", "e", "a", "r", "c", "h">>
SegStats == <<"s", "t", "a", "t", "s">>
SegInstall == <<"i", "n", "s", "t", "a", "l", "l">>
SegLoad == <<"l", "o", "a", "d">>
SegUnload == <<"u", "n", "l", "o", "a", "d">>
SegEnable == <<"e", "n", "a", "b", "l", "e">>
SegDisable == <<"d", "i", "s", "a", "b", "l", "e">>
Param == <<":", "p", "l", "u", "g", "i", "n", "I", "d">>

NewRoute(method, path, handler) == [method |-> method, path |-> path, handler |-> handler]

\* the routes, in the order plugin.routes.ts registers them
router ==
    <<NewRoute("GET", <<>>, "list"),
      NewRoute("GET", <<SegSearch>>, "search"),
      NewRoute("GET", <<Param>>, "info"),
      NewRoute("POST", <<Param, SegInstall>>, "install"),
      NewRoute("POST", <<Param, SegLoad>>, "load"),
      NewRoute("POST", <<Param, SegUnload>>, "unload"),
      NewRoute("POST", <<Param, SegEnable>>, "enable"),
      NewRoute("POST", <<Param, SegDisable>>, "disable"),
      NewRoute("DELETE", <<Param>>, "uninstall"),
      NewRoute("GET", <<SegStats>>, "stats")>>

\* a segment of a route that is a named parameter
IsParam(segment) == segment # <<>> /\ segment[1] = ":"

\* whether a route matches a request: a parameter matches any segment
Matches(route, method, path) ==
    /\ route.method = method
    /\ Len(route.path) = Len(path)
    /\ \A k \in 1..Len(path) : IsParam(route.path[k]) \/ route.path[k] = path[k]

\* the route that handles a request: the first that matches, 0 when none does
Dispatch(method, path) ==
    LET matching == {i \in 1..Len(router) : Matches(router[i], method, path)}
    IN IF matching = {} THEN 0 ELSE SetMin(matching)

Handles(method, path, handler) ==
    /\ Dispatch(method, path) # 0
    /\ router[Dispatch(method, path)].handler = handler

\* req.params.pluginId
ParamOf(route, path) ==
    LET named == {k \in 1..Len(path) : IsParam(route.path[k])}
    IN IF named = {} THEN <<>> ELSE path[SetMin(named)]

\* the envelopes: res.json({success: true, ..}) and
\* res.status(status).json({success: false, error, ..}); the timestamp is left out
NoData == "#undefined"
Success(data, message) == [status |-> 200, success |-> TRUE, data |-> data, message |-> message]
Fail(status, error) == [status |-> status, success |-> FALSE, error |-> error]

\* what a handler did: the services it called and the responses it sent
Done(called, sent) == [invoked |-> called, responses |-> sent, escaped |-> FALSE]

\* getInstalledPlugins, l.1013-1015, when livePluginManager.list() returns
getInstalledPlugins == MapKeys(installedPackages)

\* getPluginInfo(pluginId), l.1027-1043: the identity of the loaded plugin, or null
NullInfo == [m \in Range(requiredProperties) |-> "absent"]
getPluginInfo(pluginId) ==
    IF ~MapHas(loadedPlugins, pluginId) THEN NullInfo
    ELSE [m \in Range(requiredProperties) |-> MapGetOr(loadedPlugins, pluginId, NullPlugin)[m]]

\* getStatistics(), l.1113-1125; the readings of the process are left out
getStatistics ==
    [totalInstalled |-> Len(getInstalledPlugins), totalLoaded |-> Len(getLoadedPlugins)]

\* GET /, l.19-41; failing: livePluginManager.list() throws
ListHandler(failing) ==
    IF failing
    THEN Done(<<"getInstalledPlugins">>, <<Fail(500, Failure("list", ""))>>)
    ELSE Done(<<"getInstalledPlugins", "getLoadedPlugins", "getAllPlugins">>,
              <<Success([installed |-> getInstalledPlugins, loaded |-> getLoadedPlugins,
                         registry |-> getAllPlugins], NoData)>>)

\* GET /search, l.46-72; an absent q is the empty text
SearchHandler(query, type) ==
    IF query = <<>>
    THEN Done(<<>>, <<Fail(400, Failure("queryRequired", ""))>>)
    ELSE Done(<<"searchPlugins">>, <<Success(searchPlugins(query, type), NoData)>>)

\* GET /:pluginId, l.77-108
InfoHandler(pluginId) ==
    LET pluginInfo == getPluginInfo(pluginId)
        metadata == getPluginMetadata(pluginId)
    IN IF pluginInfo = NullInfo /\ metadata = NullMetadata
       THEN Done(<<"getPluginInfo", "getPluginMetadata">>,
                 <<Fail(404, Failure("notFound", ""))>>)
       ELSE Done(<<"getPluginInfo", "getPluginMetadata", "isPluginLoaded">>,
                 <<Success([info |-> pluginInfo, metadata |-> metadata,
                            isLoaded |-> isPluginLoaded(pluginId)], NoData)>>)

\* GET /stats, l.268-284; failing: livePluginManager.list() throws
StatsHandler(failing) ==
    IF failing
    THEN Done(<<"getStatistics">>, <<Fail(500, Failure("list", ""))>>)
    ELSE Done(<<"getStatistics">>, <<Success(getStatistics, NoData)>>)

\* a request that has been answered
Handled(method, path, handler, pluginId, loaded, done) ==
    [method |-> method, path |-> path, handler |-> handler, pluginId |-> pluginId,
     loaded |-> loaded, invoked |-> done.invoked, responses |-> done.responses,
     escaped |-> done.escaped]

\* no handler has a continuation that is about to run
Quiet == pmLast.outcome = ""

\* a GET request: its handler runs to its end
Get(path, query, type, failing) ==
    /\ Quiet
    /\ Dispatch("GET", path) # 0
    /\ LET route == router[Dispatch("GET", path)]
           pluginId == ParamOf(route, path)
           done == CASE route.handler = "list" -> ListHandler(failing)
                     [] route.handler = "search" -> SearchHandler(query, type)
                     [] route.handler = "info" -> InfoHandler(pluginId)
                     [] route.handler = "stats" -> StatsHandler(failing)
       IN httpLast' = Handled("GET", path, route.handler, pluginId, FALSE, done)
    /\ UNCHANGED <<msgVars, pmVars, regVars, storeVars>>

\* POST /:pluginId/install, l.113-118: up to the end of installPlugin
PostInstall(pluginId, version, answers) ==
    /\ Quiet
    /\ Handles("POST", <<pluginId, SegInstall>>, "install")
    /\ InstallPlugin(pluginId, version, answers)

\* the load handler calling loadPlugin without asking isPluginLoaded
PostLoadSkipsCheck(pluginId) ==
    /\ Quiet
    /\ Handles("POST", <<pluginId, SegLoad>>, "load")
    /\ LoadPlugin(pluginId)

\* POST /:pluginId/load, l.137-149: up to await loadPlugin
PostLoad(pluginId) ==
    /\ Quiet
    /\ Handles("POST", <<pluginId, SegLoad>>, "load")
    /\ IF isPluginLoaded(pluginId)
       THEN /\ httpLast' = Handled("POST", <<pluginId, SegLoad>>, "load", pluginId, TRUE,
                                   Done(<<"isPluginLoaded">>,
                                        <<Fail(400, Failure("alreadyLoaded", ""))>>))
            /\ UNCHANGED <<msgVars, pmVars, regVars, storeVars>>
       ELSE LoadPlugin(pluginId)

\* POST /:pluginId/unload, l.168-180: up to await unloadPlugin
PostUnload(pluginId) ==
    /\ Quiet
    /\ Handles("POST", <<pluginId, SegUnload>>, "unload")
    /\ IF ~isPluginLoaded(pluginId)
       THEN /\ httpLast' = Handled("POST", <<pluginId, SegUnload>>, "unload", pluginId, FALSE,
                                   Done(<<"isPluginLoaded">>,
                                        <<Fail(400, Failure("pluginNotLoaded", ""))>>))
            /\ UNCHANGED <<msgVars, pmVars, regVars, storeVars>>
       ELSE UnloadPlugin(pluginId)

\* POST /:pluginId/enable, l.199-203, and POST /:pluginId/disable, l.222-226
PostEnable(pluginId) ==
    /\ Quiet
    /\ Handles("POST", <<pluginId, SegEnable>>, "enable")
    /\ EnablePlugin(pluginId)

PostDisable(pluginId) ==
    /\ Quiet
    /\ Handles("POST", <<pluginId, SegDisable>>, "disable")
    /\ DisablePlugin(pluginId)

\* DELETE /:pluginId, l.245-249
Delete(pluginId) ==
    /\ Quiet
    /\ Handles("DELETE", <<pluginId>>, "uninstall")
    /\ UninstallPlugin(pluginId)

\* the last segment of the path of the handler that awaits call op
SegOf(op) ==
    CASE op = "install" -> <<SegInstall>>
      [] op = "load" -> <<SegLoad>>
      [] op = "unload" -> <<SegUnload>>
      [] op = "enable" -> <<SegEnable>>
      [] op = "disable" -> <<SegDisable>>
      [] op = "uninstall" -> <<>>

\* the calls a handler has made when its await has ended
InvokedFor(op) ==
    CASE op = "install" -> <<"installPlugin">>
      [] op = "load" -> <<"isPluginLoaded", "loadPlugin">>
      [] op = "unload" -> <<"isPluginLoaded", "unloadPlugin">>
      [] op = "enable" -> <<"enablePlugin">>
      [] op = "disable" -> <<"disablePlugin">>
      [] op = "uninstall" -> <<"uninstallPlugin">>

\* a handler whose catch block throws the error again
SettledRethrows(call) ==
    Handled(IF call.op = "uninstall" THEN "DELETE" ELSE "POST",
            <<call.id>> \o SegOf(call.op), call.op, call.id, call.op = "unload",
            IF call.outcome = "ok"
            THEN Done(InvokedFor(call.op), <<Success(NoData, call.op)>>)
            ELSE [invoked |-> InvokedFor(call.op), responses |-> <<>>, escaped |-> TRUE])

\* what a handler does after its await, l.120-131, l.151-162, l.182-193,
\* l.205-216, l.228-239, l.251-262: the envelope with the message when the
\* call has returned, status 400 with error.message when it has thrown.
\* The handler had reached its await with the answer isPluginLoaded gave it:
\* false in the load handler, true in the unload handler.
Settled(call) ==
    Handled(IF call.op = "uninstall" THEN "DELETE" ELSE "POST",
            <<call.id>> \o SegOf(call.op), call.op, call.id, call.op = "unload",
            Done(InvokedFor(call.op),
                 IF call.outcome = "ok" THEN <<Success(NoData, call.op)>>
                 ELSE <<Fail(400, call.error)>>))

\* the handler that awaited the call that has just ended answers
Answer ==
    /\ ~Quiet
    /\ httpLast' = Settled(pmLast)
    /\ pmLast' = PmIdle("answer")
    /\ pmEvents' = <<>>
    /\ UNCHANGED <<installedPackages, loadedPlugins, pluginContexts, calls, pmListeners, config>>
    /\ UNCHANGED <<msgVars, regVars, storeVars>>

(***************************************************************************)
(* The router specification: one package is installed; the registry is     *)
(* empty or knows it and a plugin whose id is "stats".                     *)
(***************************************************************************)
RouteIds == {PackageWeather}
GetPaths == {<<>>, <<SegSearch>>, <<SegStats>>, <<PackageWeather>>}

InitRoutes ==
    /\ InitMessaging
    /\ installedPackages = <<[k |-> PackageWeather, v |-> WellFormed]>>
    /\ loadedPlugins = <<>>
    /\ pluginContexts = <<>>
    /\ calls = <<>>
    /\ pmEvents = <<>>
    /\ pmLast = PmIdle("init")
    /\ pmListeners = ApiListeners
    /\ config = PluginConfig(FALSE)
    /\ \E registered \in BOOLEAN :
         plugins = IF registered
                   THEN <<[k |-> PackageWeather,
                           v |-> Metadata(PackageWeather, NameWeather, "backend",
                                          DescriptionRain, TagsNone)],
                          [k |-> SegStats,
                           v |-> Metadata(SegStats, NamePaving, "core",
                                          DescriptionRoad, TagsHot)]>>
                   ELSE <<>>
    /\ regLast = RegIdle
    /\ InitApi
    /\ InitStore

NextRoutes ==
    \/ \E path \in GetPaths, query \in {<<>>, <<"H", "O", "T">>}, failing \in BOOLEAN :
          Get(path, query, NoType, failing)
    \/ \E id \in RouteIds, answers \in {NoAnswers, [NoAnswers EXCEPT !.install = "reject"]} :
          PostInstall(id, <<>>, answers)
    \/ \E id \in RouteIds : PostLoad(id)
    \/ \E i \in 1..Len(calls) : Quiet /\ LoadRequired(i)
    \/ \E i \in 1..Len(calls), ok \in BOOLEAN : Quiet /\ LoadInitialized(i, ok)
    \/ \E id \in RouteIds : PostUnload(id)
    \/ \E i \in 1..Len(calls), ok \in BOOLEAN : Quiet /\ UnloadDestroyed(i, ok)
    \/ \E id \in RouteIds : PostEnable(id)
    \/ \E i \in 1..Len(calls), ok \in BOOLEAN : Quiet /\ EnableSettled(i, ok)
    \/ \E id \in RouteIds : PostDisable(id)
    \/ \E i \in 1..Len(calls), ok \in BOOLEAN : Quiet /\ DisableSettled(i, ok)
    \/ \E id \in RouteIds : Delete(id)
    \/ \E i \in 1..Len(calls), ok \in BOOLEAN : Quiet /\ UninstallDestroyed(i, ok)
    \/ \E i \in 1..Len(calls), ok \in BOOLEAN : Quiet /\ UninstallSettled(i, ok)
    \/ Answer

SpecRoutes == InitRoutes /\ [][NextRoutes]_vars

(***************************************************************************)
(* Properties of the plugin router.                                        *)
(***************************************************************************)
\* C21: GET /api/plugins/stats is answered by the statistics handler, with
\* a success envelope whose data is getStatistics(), whatever is registered
\* or loaded; it is not handled as the lookup of a plugin named "stats".
C21_StatsIsAnswered ==
    (httpLast.method = "GET" /\ httpLast.path = <<SegStats>>)
    => /\ httpLast.handler = "stats"
       /\ httpLast.invoked = <<"getStatistics">>
       /\ \A k \in 1..Len(httpLast.responses) :
             httpLast.responses[k].success
             => DOMAIN httpLast.responses[k].data = DOMAIN getStatistics

\* C22: a POST /:id/load handled while the plugin is loaded is answered 400
\* with a failure envelope, loadPlugin is not invoked, and the loaded
\* instance is left as it is.
C22_AlreadyLoadedIsRefused ==
    [][\A id \in RouteIds :
          isPluginLoaded(id)
          => /\ ~(/\ Len(calls') > Len(calls)
                  /\ LastOf(calls').op = "load"
                  /\ LastOf(calls').id = id)
             /\ (/\ httpLast' # httpLast
                 /\ httpLast'.handler = "load"
                 /\ httpLast'.pluginId = id
                 /\ httpLast'.loaded)
                => /\ httpLast'.responses = <<Fail(400, Failure("alreadyLoaded", ""))>>
                   /\ "loadPlugin" \notin Range(httpLast'.invoked)
                   /\ UNCHANGED <<installedPackages, loadedPlugins, pluginContexts, calls>>]_vars

\* a load request has been refused while the plugin is loaded
C22_Witness ==
    /\ httpLast.handler = "load"
    /\ httpLast.loaded
    /\ isPluginLoaded(httpLast.pluginId)
    /\ httpLast.responses[1].status = 400
    /\ calls = <<>>

\* one response, a success envelope or a failure envelope with an error
\* status
OneEnvelope(done) ==
    /\ Len(done.responses) = 1
    /\ ~done.escaped
    /\ IF done.responses[1].success
       THEN done.responses[1].status = 200
       ELSE /\ done.responses[1].status \in {400, 404, 500}
            /\ "error" \in DOMAIN done.responses[1]

\* C23: every handler of the plugin router sends exactly one response for
\* every outcome of the service call it makes: a success envelope when the
\* call returns, a failure envelope with a 4xx / 5xx status when it throws;
\* no failure of a service leaves a handler as an exception.  The handler
\* that awaits a call of the manager answers as soon as the call has ended,
\* with success exactly when the call has returned.
C23_EveryOutcomeIsAnswered ==
    /\ [](httpLast.handler # "" => OneEnvelope(httpLast))
    /\ [](\A failing \in BOOLEAN : OneEnvelope(StatsHandler(failing)))
    /\ [][~Quiet
          => /\ httpLast'.handler = pmLast.op
             /\ httpLast'.pluginId = pmLast.id
             /\ Len(httpLast'.responses) = 1
             /\ httpLast'.responses[1].success = (pmLast.outcome = "ok")
             /\ pmLast.outcome # "ok" => httpLast'.responses = <<Fail(400, pmLast.error)>>]_vars

\* the uninstall handler has answered 400 for an uninstall that failed while
\* another call was under way
C23_Witness ==
    /\ httpLast.handler = "uninstall"
    /\ httpLast.method = "DELETE"
    /\ Len(httpLast.responses) = 1
    /\ ~httpLast.responses[1].success
    /\ httpLast.responses[1].status = 400
    /\ httpLast.responses[1].error.kind = "uninstall"
    /\ calls # <<>>

\* C30: through the router a loaded plugin is never overwritten: of two
\* POST /:id/load requests for one id, whatever their interleaving, one
\* runs initialize and stores the instance and the other is answered 400.
C30_LoadedIsNotOverwritten ==
    /\ (pmLast.op = "load" /\ pmLast.outcome = "ok")
       => pmLast.id \notin Range(pmLast.loadedBefore)
    /\ \A i, j \in 1..Len(calls) :
          (/\ i # j
           /\ calls[i].op = "load" /\ calls[j].op = "load"
           /\ calls[i].id = calls[j].id)
          => ~(calls[i].initCalled /\ calls[j].initCalled)

(***************************************************************************)
(* The client module store, web-app/src/stores/module.store.ts.            *)
(*                                                                         *)
(* Of a ModuleMetadata the store reads id and type; repository only        *)
(* chooses the URL that is fetched.  Of a LoadedModule the model keeps     *)
(* metadata, component, isLoading and loadError: routes is set with        *)
(* component, and lastLoaded is never read.  A call of the store that      *)
(* waits for a fetch or an import is kept in storeCalls.                   *)
(***************************************************************************)
MaxLoads == 2        \* calls of the client store waiting at the same time

NoComponent == "#undefined"
NoLoadError == "#undefined"

Module(moduleId, type) == [id |-> moduleId, type |-> type]
NoModule == Module("#undefined", "")

LoadedModule(metadata, component, isLoading, loadError) ==
    [metadata |-> metadata, component |-> component, isLoading |-> isLoading,
     loadError |-> loadError]

\* the entry loadModule records before it loads, l.59-65
LoadingEntry(metadata) == LoadedModule(metadata, NoComponent, TRUE, NoLoadError)

\* the entry loadModule records when nothing has thrown, l.95-104
ReadyEntry(metadata, component) == LoadedModule(metadata, component, FALSE, NoLoadError)

\* an error entry that still says it is loading
ErrorEntryStillLoading(metadata, message) == LoadedModule(metadata, NoComponent, TRUE, message)

\* the entry loadModule records in its catch block, l.107-117
ErrorEntry(metadata, message) == LoadedModule(metadata, NoComponent, FALSE, message)

\* availableModules.find(m => m.id === moduleId), l.51
FindModule(moduleId) ==
    LET found == {i \in 1..Len(availableModules) : availableModules[i].id = moduleId}
    IN IF found = {} THEN NoModule ELSE availableModules[SetMin(found)]

\* isModuleLoaded, l.164
isModuleLoaded(moduleId) == MapHas(loadedModules, moduleId)

\* the state of an entry: "absent", "loading", "error" or "ready"
EntryState(entries, moduleId) ==
    IF ~MapHas(entries, moduleId) THEN "absent"
    ELSE LET entry == MapGetOr(entries, moduleId, LoadingEntry(NoModule))
         IN IF entry.isLoading THEN "loading"
            ELSE IF entry.loadError # NoLoadError THEN "error"
            ELSE "ready"

\* a call of the store that waits
StoreCall(op, moduleId, metadata, pc) ==
    [op |-> op, id |-> moduleId, metadata |-> metadata, pc |-> pc]

\* what a call has left: the entries, the waiting calls and the step
Left(entries, waiting, step) == [loadedModules |-> entries, storeCalls |-> waiting, step |-> step]

\* remoteModule.default || remoteModule.Component, l.79 and l.86, of a module
\* that exports a component ("component") or neither name ("empty")
ComponentOf(result) == IF result = "component" THEN "component" ELSE NoComponent

\* loadModule recording a loading entry and fetching without looking the id up
loadModuleWithoutLookup(op, moduleId, waiting) ==
    Left(MapSet(loadedModules, moduleId, LoadingEntry(FindModule(moduleId))),
         Append(waiting, StoreCall("loadModule", moduleId, FindModule(moduleId), "remote")),
         StoreStep(op, moduleId, EntryState(loadedModules, moduleId),
                   FindModule(moduleId) # NoModule, <<"set", "fetch">>, FALSE))

\* loadModule(moduleId), l.49-78, up to await loadRemoteModule: a module that
\* is not of type frontend-react has nothing to await, and its second set
\* follows the first at once.  waiting are the calls that wait; op is the
\* call of the store that runs loadModule.
loadModule(op, moduleId, waiting) ==
    LET moduleMetadata == FindModule(moduleId)
        before == EntryState(loadedModules, moduleId)
        newLoadedModules == MapSet(loadedModules, moduleId, LoadingEntry(moduleMetadata))
    IN IF moduleMetadata = NoModule
       THEN Left(loadedModules, waiting,
                 StoreStep(op, moduleId, before, FALSE, <<"console.error">>, TRUE))
       ELSE IF moduleMetadata.type = "frontend-react"
       THEN Left(newLoadedModules,
                 Append(waiting, StoreCall("loadModule", moduleId, moduleMetadata, "remote")),
                 StoreStep(op, moduleId, before, TRUE, <<"set", "fetch">>, FALSE))
       ELSE Left(MapSet(newLoadedModules, moduleId, ReadyEntry(moduleMetadata, NoComponent)),
                 waiting,
                 StoreStep(op, moduleId, before, TRUE, <<"set", "set">>, TRUE))

\* a step of the store that leaves what left says
StoreCommit(left) ==
    /\ loadedModules' = left.loadedModules
    /\ storeCalls' = left.storeCalls
    /\ storeLast' = left.step
    /\ UNCHANGED availableModules
    /\ UNCHANGED <<msgVars, pmVars, regVars, apiVars>>

\* setAvailableModules(modules), l.47
SetAvailableModules(modules) ==
    /\ availableModules' = modules
    /\ storeLast' = StoreStep("setAvailableModules", "", "absent", FALSE, <<"set">>, FALSE)
    /\ UNCHANGED <<loadedModules, storeCalls>>
    /\ UNCHANGED <<msgVars, pmVars, regVars, apiVars>>

\* loadModule(moduleId), l.49-78
LoadModule(moduleId) ==
    /\ Len(storeCalls) < MaxLoads
    /\ StoreCommit(loadModule("loadModule", moduleId, storeCalls))

\* loadModule, l.78-106: loadRemoteModule has settled; when it rejected the
\* local module is imported, l.81-85
RemoteSettled(i, result) ==
    /\ storeCalls[i].op = "loadModule" /\ storeCalls[i].pc = "remote"
    /\ LET call == storeCalls[i]
           before == EntryState(loadedModules, call.id)
       IN IF result = "reject"
          THEN StoreCommit(Left(loadedModules,
                                [storeCalls EXCEPT ![i] = [call EXCEPT !.pc = "local"]],
                                StoreStep("remoteSettled", call.id, before, TRUE,
                                          <<"console.warn", "import">>, FALSE)))
          ELSE StoreCommit(Left(MapSet(loadedModules, call.id,
                                       ReadyEntry(call.metadata, ComponentOf(result))),
                                RemoveAt(storeCalls, i),
                                StoreStep("remoteSettled", call.id, before, TRUE,
                                          <<"set">>, TRUE)))

\* loadModule fetching the remote module again when the local import has
\* rejected, in place of recording the error
LocalSettledRetries(i, result) ==
    /\ storeCalls[i].op = "loadModule" /\ storeCalls[i].pc = "local"
    /\ LET call == storeCalls[i]
           before == EntryState(loadedModules, call.id)
       IN IF result = "reject"
          THEN StoreCommit(Left(loadedModules,
                                [storeCalls EXCEPT ![i] = [call EXCEPT !.pc = "remote"]],
                                StoreStep("localSettled", call.id, before, TRUE,
                                          <<"console.warn", "fetch">>, FALSE)))
          ELSE StoreCommit(Left(MapSet(loadedModules, call.id,
                                       ReadyEntry(call.metadata, ComponentOf(result))),
                                RemoveAt(storeCalls, i),
                                StoreStep("localSettled", call.id, before, TRUE,
                                          <<"set">>, TRUE)))

\* loadModule, l.85-119: the import of the local module has settled; when it
\* rejected an Error is thrown, l.89, and the catch block records it
LocalSettled(i, result) ==
    /\ storeCalls[i].op = "loadModule" /\ storeCalls[i].pc = "local"
    /\ LET call == storeCalls[i]
           before == EntryState(loadedModules, call.id)
       IN StoreCommit(Left(MapSet(loadedModules, call.id,
                                  IF result = "reject"
                                  THEN ErrorEntry(call.metadata, "Failed to load module")
                                  ELSE ReadyEntry(call.metadata, ComponentOf(result))),
                           RemoveAt(storeCalls, i),
                           StoreStep("localSettled", call.id, before, TRUE,
                                     IF result = "reject" THEN <<"set", "console.error">>
                                     ELSE <<"set">>,
                                     TRUE)))

\* unloadModule removing the entry unless it is loading
UnloadModuleUnlessLoading(moduleId) ==
    StoreCommit(Left(IF EntryState(loadedModules, moduleId) = "loading" THEN loadedModules
                     ELSE MapDelete(loadedModules, moduleId),
                     storeCalls,
                     StoreStep("unloadModule", moduleId, EntryState(loadedModules, moduleId),
                               FALSE, <<"set">>, FALSE)))

\* unloadModule(moduleId), l.122-128
UnloadModule(moduleId) ==
    StoreCommit(Left(MapDelete(loadedModules, moduleId), storeCalls,
                     StoreStep("unloadModule", moduleId, EntryState(loadedModules, moduleId),
                               FALSE, <<"set">>, FALSE)))

\* disableModule asking the server first and leaving the entry until it answers
DisableModuleAsksFirst(moduleId) ==
    /\ Len(storeCalls) < MaxLoads
    /\ StoreCommit(Left(loadedModules,
                        Append(storeCalls, StoreCall("disableModule", moduleId, NoModule, "fetch")),
                        StoreStep("disableModule", moduleId,
                                  EntryState(loadedModules, moduleId), FALSE,
                                  <<"fetch">>, FALSE)))

\* disableModule(moduleId), l.144-150: unloadModule, then the fetch is issued
DisableModule(moduleId) ==
    /\ Len(storeCalls) < MaxLoads
    /\ StoreCommit(Left(MapDelete(loadedModules, moduleId),
                        Append(storeCalls, StoreCall("disableModule", moduleId, NoModule, "fetch")),
                        StoreStep("disableModule", moduleId,
                                  EntryState(loadedModules, moduleId), FALSE,
                                  <<"unloadModule", "fetch">>, FALSE)))

\* disableModule, l.148-149: the fetch has settled: the server answered with
\* success ("ok") or with an error status ("failed"), or the request was
\* rejected ("reject") and the rejection is logged
DisableFetched(i, result) ==
    /\ storeCalls[i].op = "disableModule"
    /\ StoreCommit(Left(loadedModules, RemoveAt(storeCalls, i),
                        StoreStep("disableFetched", storeCalls[i].id,
                                  EntryState(loadedModules, storeCalls[i].id), FALSE,
                                  IF result = "reject" THEN <<result, "console.error">>
                                  ELSE <<result>>,
                                  FALSE)))

\* enableModule(moduleId), l.130-133: up to await fetch
EnableModule(moduleId) ==
    /\ Len(storeCalls) < MaxLoads
    /\ StoreCommit(Left(loadedModules,
                        Append(storeCalls, StoreCall("enableModule", moduleId, NoModule, "fetch")),
                        StoreStep("enableModule", moduleId,
                                  EntryState(loadedModules, moduleId), FALSE,
                                  <<"fetch">>, FALSE)))

\* enableModule, l.133-141: the fetch has settled; the module is loaded again
\* when it has an entry
EnableFetched(i, result) ==
    /\ storeCalls[i].op = "enableModule"
    /\ IF result # "reject" /\ isModuleLoaded(storeCalls[i].id)
       THEN StoreCommit(loadModule("enableFetched", storeCalls[i].id, RemoveAt(storeCalls, i)))
       ELSE StoreCommit(Left(loadedModules, RemoveAt(storeCalls, i),
                             StoreStep("enableFetched", storeCalls[i].id,
                                       EntryState(loadedModules, storeCalls[i].id), FALSE,
                                       IF result = "reject" THEN <<result, "console.error">>
                                       ELSE <<result>>,
                                       FALSE)))

(***************************************************************************)
(* The client store specification: the client learns of a remote React     *)
(* module and of a backend module; "overwatch" is never announced.         *)
(***************************************************************************)
Dashboard == Module("dashboard", "frontend-react")
Reports == Module("reports", "backend")
ModuleIds == {"dashboard", "reports", "overwatch"}
ModuleResults == {"component", "empty", "reject"}
FetchResults == {"ok", "failed", "reject"}

NextStore ==
    \/ \E modules \in {<<>>, <<Dashboard, Reports>>} : SetAvailableModules(modules)
    \/ \E id \in ModuleIds : LoadModule(id)
    \/ \E i \in 1..Len(storeCalls), result \in ModuleResults : RemoteSettled(i, result)
    \/ \E i \in 1..Len(storeCalls), result \in ModuleResults : LocalSettled(i, result)
    \/ \E id \in ModuleIds : UnloadModule(id)
    \/ \E id \in ModuleIds : DisableModule(id)
    \/ \E i \in 1..Len(storeCalls), result \in FetchResults : DisableFetched(i, result)
    \/ \E id \in ModuleIds : EnableModule(id)
    \/ \E i \in 1..Len(storeCalls), result \in FetchResults : EnableFetched(i, result)

SpecStore == Init /\ [][NextStore]_vars

(***************************************************************************)
(* Properties of the client module store.                                  *)
(***************************************************************************)
EntryOf(moduleId) == MapGetOr(loadedModules, moduleId, LoadingEntry(NoModule))

\* the steps that complete a loadModule call
LoadSteps == {"loadModule", "remoteSettled", "localSettled"}

\* C24: when a loadModule(id) call has completed for an id that is in
\* availableModules, the entry of id is a ready entry with its component set
\* and isLoading false, or an error entry with loadError set, isLoading
\* false and no component, whatever the type of the module.
C24_LoadEndsReadyOrError ==
    (storeLast.op \in LoadSteps /\ storeLast.completed /\ storeLast.found)
    => /\ isModuleLoaded(storeLast.id)
       /\ ~EntryOf(storeLast.id).isLoading
       /\ \/ /\ EntryOf(storeLast.id).component # NoComponent
             /\ EntryOf(storeLast.id).loadError = NoLoadError
          \/ /\ EntryOf(storeLast.id).loadError # NoLoadError
             /\ EntryOf(storeLast.id).component = NoComponent

\* C25: every entry of loadedModules is in exactly one of the states
\* loading, ready (not loading, no loadError) and failed (loadError set): no
\* entry is loading with a loadError, none has a component and a loadError.
C25_OneStatePerEntry ==
    \A i \in 1..Len(loadedModules) :
        LET entry == loadedModules[i].v
            isLoading == entry.isLoading
            ready == ~entry.isLoading /\ entry.loadError = NoLoadError
            failed == entry.loadError # NoLoadError
        IN /\ Cardinality({state \in {"loading", "ready", "failed"} :
                              \/ state = "loading" /\ isLoading
                              \/ state = "ready" /\ ready
                              \/ state = "failed" /\ failed}) = 1
           /\ ~(isLoading /\ failed)
           /\ ~(entry.component # NoComponent /\ failed)

\* a load of "dashboard" has failed while another one is under way, next to
\* the ready entry of "reports"
C25_Witness ==
    /\ storeLast.op = "localSettled"
    /\ EntryState(loadedModules, "dashboard") = "error"
    /\ EntryState(loadedModules, "reports") = "ready"
    /\ \E i \in 1..Len(storeCalls) :
          storeCalls[i].op = "loadModule" /\ storeCalls[i].id = "dashboard"

\* C26: loadModule(id) for an id that is not in availableModules creates no
\* entry, leaves loadedModules as it is, starts no fetch, and returns
\* without raising.
C26_UnknownModuleIsIgnored ==
    [][(storeLast'.op = "loadModule" /\ FindModule(storeLast'.id) = NoModule)
       => /\ loadedModules' = loadedModules
          /\ storeCalls' = storeCalls
          /\ "fetch" \notin Range(storeLast'.trace)
          /\ storeLast'.completed
          /\ ~storeLast'.raised]_vars

\* loadModule("overwatch") has returned while "dashboard" is being loaded
C26_Witness ==
    /\ storeLast.op = "loadModule"
    /\ storeLast.id = "overwatch"
    /\ ~storeLast.found
    /\ availableModules # <<>>
    /\ ~isModuleLoaded("overwatch")
    /\ EntryState(loadedModules, "dashboard") = "loading"

\* C27: unloadModule(id) removes the entry of id whatever its state, so that
\* isModuleLoaded(id) is false at once, and leaves the entries of the other
\* ids as they are.
C27_UnloadRemovesEntry ==
    [][storeLast'.op = "unloadModule"
       => /\ ~MapHas(loadedModules', storeLast'.id)
          /\ \A other \in ModuleIds \ {storeLast'.id} :
                /\ MapHas(loadedModules', other) = MapHas(loadedModules, other)
                /\ MapGetOr(loadedModules', other, LoadingEntry(NoModule))
                   = MapGetOr(loadedModules, other, LoadingEntry(NoModule))
          /\ storeCalls' = storeCalls]_vars

\* the entry of "dashboard" has been removed while it was loading, and the
\* entry of "reports" is still there
C27_Witness ==
    /\ storeLast.op = "unloadModule"
    /\ storeLast.id = "dashboard"
    /\ storeLast.before = "loading"
    /\ ~isModuleLoaded("dashboard")
    /\ isModuleLoaded("reports")

\* C28: disableModule(id) removes the entry before it issues the request to
\* the server, and whatever the request comes to: a request that fails or is
\* rejected puts no entry back and raises nothing to the caller.
C28_DisableIsOptimistic ==
    [][/\ storeLast'.op = "disableModule"
          => /\ ~MapHas(loadedModules', storeLast'.id)
             /\ storeLast'.trace = <<"unloadModule", "fetch">>
             /\ Len(storeCalls') = Len(storeCalls) + 1
             /\ ~storeLast'.raised
       /\ storeLast'.op = "disableFetched"
          => /\ loadedModules' = loadedModules
             /\ ~storeLast'.raised]_vars

\* the request of a disableModule has been rejected: its id has no entry,
\* another id has one
C28_Witness ==
    /\ storeLast.op = "disableFetched"
    /\ storeLast.trace = <<"reject", "console.error">>
    /\ storeLast.before = "absent"
    /\ ~isModuleLoaded(storeLast.id)
    /\ loadedModules # <<>>

(***************************************************************************)
(* The plugin manager's tables and the installer when calls overlap.       *)
(***************************************************************************)
\* C31: in every reachable state, for every interleaving of loadPlugin and
\* uninstallPlugin on one id, each id in the loaded-plugin table is
\* installed, which is to say resolvable by the installer.
C31_LoadedIsInstalled ==
    \A k \in 1..Len(loadedPlugins) : MapHas(installedPackages, loadedPlugins[k].k)

(***************************************************************************)
(* The client module store when loadModule calls on one id overlap.        *)
(***************************************************************************)
\* C32: for any sequence and overlap of loadModule calls on one id, the
\* entry of the id becomes ready or error only from the loading state: the
\* step of a loadModule that leaves the entry ready or error, having found an
\* entry in another state, found it loading, never ready and never error.
C32_ReadyOrErrorOnlyFromLoading ==
    (/\ storeLast.op \in LoadSteps
     /\ storeLast.completed
     /\ storeLast.before # "absent"
     /\ EntryState(loadedModules, storeLast.id) # storeLast.before)
        => storeLast.before = "loading"

(***************************************************************************)
(* The two tables of the plugin manager: load, unload, uninstall and       *)
(* shutdown calls overlap.                                                 *)
(***************************************************************************)
NextTables ==
    \/ \E id \in PluginIds : LoadPlugin(id)
    \/ \E i \in 1..Len(calls) : LoadRequired(i)
    \/ \E i \in 1..Len(calls), ok \in BOOLEAN : LoadInitialized(i, ok)
    \/ \E id \in PluginIds : UnloadPlugin(id)
    \/ \E i \in 1..Len(calls), ok \in BOOLEAN : UnloadDestroyed(i, ok)
    \/ \E id \in PluginIds : UninstallPlugin(id)
    \/ \E i \in 1..Len(calls), ok \in BOOLEAN : UninstallDestroyed(i, ok)
    \/ \E i \in 1..Len(calls), ok \in BOOLEAN : UninstallSettled(i, ok)
    \/ Shutdown
    \/ \E i \in 1..Len(calls), ok \in BOOLEAN : ShutdownDestroyed(i, ok)

SpecTables == InitLifecycle /\ [][NextTables]_vars

\* C33: in every reachable state of the plugin manager, for any
\* interleaving of load, unload, uninstall and shutdown, the loaded-plugin
\* table and the plugin-context table hold the same ids: an id has a context
\* exactly when a plugin instance is loaded under it.
C33_TablesHaveSameIds ==
    \A id \in PluginIds : MapHas(pluginContexts, id) <=> MapHas(loadedPlugins, id)

\* a plugin has been unloaded by a call that overlapped another call on it,
\* and the other plugin is still loaded with its context
C33_Witness ==
    /\ pmLast.op \in {"unload", "uninstall", "shutdown"}
    /\ pmLast.outcome = "ok"
    /\ pmLast.overlap
    /\ Len(loadedPlugins) = 1
    /\ pluginContexts = <<[k |-> loadedPlugins[1].k, v |-> createPluginContext(loadedPlugins[1].k)]>>

(***************************************************************************)
(* The topics of the MessagingService.                                     *)
(***************************************************************************)
\* C34: in every reachable state of the MessagingService no topic in the
\* subscriptions map has an empty subscriber list, so getTopics() lists only
\* topics with at least one subscription; the history of a topic is kept
\* apart and may be there without a subscription.
C34_NoEmptyTopic ==
    /\ \A k \in 1..Len(subscriptions) : Len(subscriptions[k].v) >= 1
    /\ \A k \in 1..Len(getTopics) : getSubscriberCount(getTopics[k]) >= 1

\* the last subscription of every topic has been removed: no topic is
\* listed, and a topic that was published to still has its history
C34_Witness ==
    /\ last.op = "unsubscribe"
    /\ nextId = 2
    /\ getTopics = <<>>
    /\ \E t \in Topics : getMessageHistory(t, 0) # <<>>
    /\ \E t \in Topics : getMessageHistory(t, 0) = <<>>

(***************************************************************************)
(* The keys of the PluginRegistry.                                         *)
(***************************************************************************)
\* C35: in every reachable state of the PluginRegistry the entry stored
\* under key k has metadata.id = k, whatever registerPlugin,
\* updatePluginMetadata (for any partial, one that carries an id included)
\* and unregisterPlugin have done.
C35_EntryIdIsItsKey ==
    \A k \in 1..Len(plugins) : plugins[k].v.id = plugins[k].k

(***************************************************************************)
(* The response topic of a request that has settled.                       *)
(***************************************************************************)
\* C36: once a request has settled, resolved by a reply or rejected by the
\* timeout, its response topic has no subscription left:
\* getSubscriberCount(responseTopic) is 0 and getTopics() does not list it.
C36_SettledRequestLeavesNoSubscription ==
    \A r \in 1..Len(requests) :
        requests[r].state # "pending" =>
            /\ getSubscriberCount(requests[r].responseTopic) = 0
            /\ \A k \in 1..Len(getTopics) : getTopics[k] # requests[r].responseTopic

(***************************************************************************)
(* The unsubscribe specification: two handlers subscribe to one topic, one *)
(* of them more than once, unsubscribe, and the topic is published to.     *)
(***************************************************************************)
MaxSubscribes == 3   \* subscribe calls in a run of the unsubscribe specification

\* subscribe(topic, h)
SubscribeAgain(topic, h) ==
    /\ nextId < MaxSubscribes
    /\ Commit(subscribe(World, topic, h), Idle("subscribe"))

NextUnsubscribe ==
    \/ \E h \in {HandlerA, HandlerB} : SubscribeAgain(TopicAlerts, h)
    \/ \E h \in {HandlerA, HandlerB} : Unsubscribe(TopicAlerts, h)
    \/ \E x \in Bodies : Publish(TopicAlerts, x)

SpecUnsubscribe == Init /\ [][NextUnsubscribe]_vars

\* C37: after unsubscribe(topic, h) has completed, no later publish to topic
\* invokes h, for every earlier sequence of subscribe calls, h subscribed
\* more than once and other handlers subscribed afterwards included: a
\* publish invokes no handler that has no subscription to the topic.
C37_UnsubscribedIsNotInvoked ==
    last.op = "publish" =>
        \A h \in {HandlerA, HandlerB} :
            TimesSubscribed(last.topic, h) = 0 => TimesInvoked(h, Stamped) = 0

(***************************************************************************)
(* The client module store: an unload while a load is in flight.           *)
(***************************************************************************)
\* C38: once unloadModule(id) or disableModule(id) has run, no entry of id
\* reappears unless loadModule(id) is called afterwards: the step in which
\* the fetch or the import of a loadModule(id) already in flight settles,
\* finding no entry of id, leaves none.
C38_UnloadedStaysUnloaded ==
    (storeLast.op \in {"remoteSettled", "localSettled"} /\ storeLast.before = "absent")
        => ~isModuleLoaded(storeLast.id)

(***************************************************************************)
(* loadPlugin when the plugin's initialize fails.                          *)
(***************************************************************************)
\* C39: if initialize(context) throws during loadPlugin(id), the error
\* reaches the caller, nothing is stored in the loaded-plugin table or in
\* the context table, no pluginLoaded event is emitted, and an instance
\* loaded under the same id before is left in place.
C39_FailedInitializeStoresNothing ==
    [][\A i \in 1..Len(calls) :
          LoadInitialized(i, FALSE) =>
              /\ pmLast'.op = "load" /\ pmLast'.id = calls[i].id
              /\ pmLast'.outcome = "error"
              /\ pmLast'.error = Failure("initialize", calls[i].id)
              /\ loadedPlugins' = loadedPlugins
              /\ pluginContexts' = pluginContexts
              /\ \A k \in 1..Len(pmEvents') : pmEvents'[k].name # "pluginLoaded"
      ]_vars

\* the initialize of a loadPlugin has failed for an id that an overlapping
\* loadPlugin had loaded before: the instance and its context are in place
C39_Witness ==
    /\ pmLast.op = "load"
    /\ pmLast.outcome = "error"
    /\ pmLast.error = Failure("initialize", pmLast.id)
    /\ pmLast.overlap
    /\ isPluginLoaded(pmLast.id)
    /\ MapHas(pluginContexts, pmLast.id)
    /\ pmEvents = <<>>

(***************************************************************************)
(* The loads of the client module store when every fetch and every import  *)
(* settles: what a loadModule call waits for resolves or rejects in the    *)
(* end, whichever place the call has among the waiting calls.              *)
(***************************************************************************)
NextLoads ==
    \/ \E modules \in {<<>>, <<Dashboard, Reports>>} : SetAvailableModules(modules)
    \/ \E id \in ModuleIds : LoadModule(id)
    \/ \E i \in 1..Len(storeCalls), result \in ModuleResults : RemoteSettled(i, result)
    \/ \E i \in 1..Len(storeCalls), result \in ModuleResults : LocalSettled(i, result)
    \/ \E id \in ModuleIds : UnloadModule(id)

SpecLoads ==
    /\ Init
    /\ [][NextLoads]_vars
    /\ \A i \in 1..MaxLoads :
          /\ WF_vars(i <= Len(storeCalls) /\ \E result \in ModuleResults : RemoteSettled(i, result))
          /\ WF_vars(i <= Len(storeCalls) /\ \E result \in ModuleResults : LocalSettled(i, result))

\* the loadModule call that has waited longest completes in this step: its
\* promise resolves, nothing is raised
OldestLoadCompletes ==
    /\ storeCalls # <<>>
    /\ storeCalls' = Tail(storeCalls)
    /\ storeLast'.op \in {"remoteSettled", "localSettled"}
    /\ storeLast'.id = Head(storeCalls).id
    /\ storeLast'.completed /\ ~storeLast'.raised

\* C40: provided the remote fetch and the local fallback each settle in the
\* end, every loadModule(id) call that recorded a loading entry completes
\* without raising (no call waits for ever: again and again no call waits,
\* or again and again the call that has waited longest completes), and no
\* entry stays loading for ever: a loading entry leads to an entry that is
\* ready or in error, or to none when it was unloaded meanwhile.
C40_LoadCompletes ==
    /\ ([]<>(storeCalls = <<>>) \/ []<><<OldestLoadCompletes>>_vars)
    /\ \A id \in ModuleIds :
          (EntryState(loadedModules, id) = "loading")
              ~> (EntryState(loadedModules, id) # "loading")

\* a loadModule call has completed by recording the error of its two failed
\* loads, no call waits and no entry is loading
C40_Witness ==
    /\ storeLast.op = "localSettled"
    /\ storeLast.completed
    /\ storeLast.before = "loading"
    /\ storeCalls = <<>>
    /\ EntryState(loadedModules, storeLast.id) = "error"
    /\ \A id \in ModuleIds : EntryState(loadedModules, id) # "loading"

====
